---- MODULE Spec2Model ----
(***************************************************************************)
(* Type-extraction pipeline: BaseTypeExtractor.extract (ts-morph based,    *)
(* core/rfc-generator.ts), the adapters of test-extraction.ts, the CLI's   *)
(* runExtraction and TypeGenerator.generate.                               *)
(*                                                                         *)
(* Text is modelled as a sequence of one-character strings, so the         *)
(* word-boundary regular expressions of the source are computed character  *)
(* by character.                                                           *)
(***************************************************************************)
EXTENDS Integers, Sequences, FiniteSets, TLC

VARIABLES
    sourceInput,   \* the source files handed to extract(): a sequence of files
    config,        \* rules: ExtractionRules and adapter in use; output: OutputConfig
    context,       \* ExtractionContext: types, metrics, errors
    pc,            \* position inside runExtraction / extract
    fileIdx,       \* index of the file parseFile is working on
    declIdx,       \* index of the next declaration inside that file
    stages,        \* history: the stages of extract() that have run, in order
    result,        \* how extract() ended: "none", "returned" or "raised"
    preValidate,   \* history: context.types when validateTypes was entered
    fs,            \* the output directory: path -> written content or NoFile
    scanDef,       \* definition text handed to findAnyInDefinition
    scanOut,       \* occurrences returned by findAnyInDefinition
    scanPc,        \* "ready" before the scan of scanDef, "done" after
    now,           \* the last reading of the clock (Date.now())
    genError,      \* the error the last generate() call raised, or NoError
    unloadable     \* the indexes of the source files that cannot be loaded

vars == <<sourceInput, config, context, pc, fileIdx, declIdx, stages, result,
          preValidate, fs, scanDef, scanOut, scanPc, now, genError,
          unloadable>>

----------------------------------------------------------------------------
(* Bounds *)

MaxFiles == 2

MaxDecls == 2

MaxLen == 7

\* the clock readings are 0..MaxTime
MaxTime == 1

----------------------------------------------------------------------------
(* Characters and strings *)

\* JavaScript \w : [A-Za-z0-9_]
WordChars ==
    {"a","b","c","d","e","f","g","h","i","j","k","l","m","n","o","p","q","r",
     "s","t","u","v","w","x","y","z",
     "A","B","C","D","E","F","G","H","I","J","K","L","M","N","O","P","Q","R",
     "S","T","U","V","W","X","Y","Z",
     "0","1","2","3","4","5","6","7","8","9","_"}

IsWordChar(c) == c \in WordChars

Min(a, b) == IF a < b THEN a ELSE b

Max(a, b) == IF a > b THEN a ELSE b

\* String.prototype.substring(start, end) with 0-based start, exclusive end
Substring(s, start, end) == SubSeq(s, start + 1, end)

\* the text s has the literal lit at 0-based index i
LiteralAt(s, lit, i) ==
    /\ i >= 0
    /\ i + Len(lit) <= Len(s)
    /\ \A k \in 1..Len(lit) : s[i + k] = lit[k]

\* String.prototype.includes
Includes(s, lit) == \E i \in 0..Len(s) : LiteralAt(s, lit, i)

\* String.prototype.endsWith
EndsWith(s, lit) == LiteralAt(s, lit, Len(s) - Len(lit))

\* regex assertion \b at 0-based index i of s
WordBoundaryAt(s, i) ==
    LET before == i >= 1 /\ IsWordChar(s[i])
        after  == i < Len(s) /\ IsWordChar(s[i + 1])
    IN  before # after

AnyWord == <<"a","n","y">>

\* /\b(any)\b(?![\w])/ matches at 0-based index i
AnyRegexMatchesAt(s, i) ==
    /\ WordBoundaryAt(s, i)
    /\ LiteralAt(s, AnyWord, i)
    /\ WordBoundaryAt(s, i + Len(AnyWord))
    /\ ~(i + Len(AnyWord) < Len(s) /\ IsWordChar(s[i + Len(AnyWord) + 1]))

\* anyRegex.exec(definition) for a /g regex: the first match at or after
\* lastIndex, or -1 (null)
AnyRegexExec(s, lastIndex) ==
    LET hits == {i \in lastIndex..Len(s) : AnyRegexMatchesAt(s, i)}
    IN  IF hits = {} THEN -1
        ELSE CHOOSE i \in hits : \A j \in hits : i <= j

SnippetRadius == 20

RECURSIVE ScanAny(_, _)
\* the while loop of findAnyInDefinition from regex position lastIndex on
ScanAny(definition, lastIndex) ==
    LET index == AnyRegexExec(definition, lastIndex)
    IN  IF index = -1 THEN <<>>
        ELSE LET startIndex == Max(0, index - SnippetRadius)
                 endIndex   == Min(Len(definition), index + SnippetRadius)
             IN  <<[context |-> Substring(definition, startIndex, endIndex)]>>
                 \o ScanAny(definition, index + Len(AnyWord))

\* variant: the regex without its leading \b, /(any)\b(?![\w])/g
RECURSIVE ScanAnyNoLeadingBoundary(_, _)
ScanAnyNoLeadingBoundary(definition, lastIndex) ==
    LET hits  == {i \in lastIndex..Len(definition) :
                     /\ LiteralAt(definition, AnyWord, i)
                     /\ WordBoundaryAt(definition, i + Len(AnyWord))}
        index == IF hits = {} THEN -1
                 ELSE CHOOSE i \in hits : \A j \in hits : i <= j
    IN  IF index = -1 THEN <<>>
        ELSE <<[context |-> Substring(definition,
                                      Max(0, index - SnippetRadius),
                                      Min(Len(definition), index + SnippetRadius))]>>
             \o ScanAnyNoLeadingBoundary(definition, index + Len(AnyWord))

findAnyInDefinitionNoLeadingBoundary(definition) ==
    ScanAnyNoLeadingBoundary(definition, 0)

findAnyInDefinition(definition) == ScanAny(definition, 0)

----------------------------------------------------------------------------
(* Source declarations offered to the extractor *)

DeclGoodType ==
    [name |-> "GoodType", kind |-> "interface", isExported |-> TRUE,
     fullText |-> <<"e","x","p","o","r","t"," ","i","n","t","e","r","f","a","c","e"," ","G","o","o","d","T","y","p","e"," ","{"," ","i","d",":"," ","s","t","r","i","n","g",";"," ","c","o","m","p","a","n","y",":"," ","A","n","y","t","h","i","n","g"," ","}">>,
     properties |-> <<[name |-> "id", hasTypeNode |-> TRUE, typeText |-> <<"s","t","r","i","n","g">>], [name |-> "company", hasTypeNode |-> TRUE, typeText |-> <<"A","n","y","t","h","i","n","g">>]>>]

DeclBadType ==
    [name |-> "BadType", kind |-> "interface", isExported |-> TRUE,
     fullText |-> <<"e","x","p","o","r","t"," ","i","n","t","e","r","f","a","c","e"," ","B","a","d","T","y","p","e"," ","{"," ","i","d",":"," ","a","n","y",";"," ","v","a","l","u","e",":"," ","s","t","r","i","n","g"," ","}">>,
     properties |-> <<[name |-> "id", hasTypeNode |-> TRUE, typeText |-> <<"a","n","y">>], [name |-> "value", hasTypeNode |-> TRUE, typeText |-> <<"s","t","r","i","n","g">>]>>]

DeclMany ==
    [name |-> "Many", kind |-> "type", isExported |-> TRUE,
     fullText |-> <<"e","x","p","o","r","t"," ","t","y","p","e"," ","M","a","n","y"," ","="," ","a","n","y"," ","|"," ","a","n","y","[","]">>,
     properties |-> <<>>]

DeclUserResponse ==
    [name |-> "UserResponse", kind |-> "interface", isExported |-> TRUE,
     fullText |-> <<"e","x","p","o","r","t"," ","i","n","t","e","r","f","a","c","e"," ","U","s","e","r","R","e","s","p","o","n","s","e"," ","{"," ","d","a","t","a",":"," ","s","t","r","i","n","g"," ","}">>,
     properties |-> <<[name |-> "data", hasTypeNode |-> TRUE, typeText |-> <<"s","t","r","i","n","g">>]>>]

DeclProduct ==
    [name |-> "Product", kind |-> "interface", isExported |-> FALSE,
     fullText |-> <<"i","n","t","e","r","f","a","c","e"," ","P","r","o","d","u","c","t"," ","{"," ","i","d",":"," ","s","t","r","i","n","g"," ","}">>,
     properties |-> <<[name |-> "id", hasTypeNode |-> TRUE, typeText |-> <<"s","t","r","i","n","g">>]>>]

DeclApiClient ==
    [name |-> "ApiClient", kind |-> "class", isExported |-> TRUE,
     fullText |-> <<"e","x","p","o","r","t"," ","c","l","a","s","s"," ","A","p","i","C","l","i","e","n","t"," ","{"," ","}">>,
     properties |-> <<>>]

DeclInternalHelper ==
    [name |-> "InternalHelper", kind |-> "interface", isExported |-> FALSE,
     fullText |-> <<"i","n","t","e","r","f","a","c","e"," ","I","n","t","e","r","n","a","l","H","e","l","p","e","r"," ","{"," ","x",":"," ","n","u","m","b","e","r"," ","}">>,
     properties |-> <<[name |-> "x", hasTypeNode |-> TRUE, typeText |-> <<"n","u","m","b","e","r">>]>>]

DeclLoose ==
    [name |-> "Loose", kind |-> "interface", isExported |-> TRUE,
     fullText |-> <<"e","x","p","o","r","t"," ","i","n","t","e","r","f","a","c","e"," ","L","o","o","s","e"," ","{"," ","i","d"," ","}">>,
     properties |-> <<[name |-> "id", hasTypeNode |-> FALSE, typeText |-> <<>>]>>]

\* getFullText() keeps the leading trivia: this declaration follows a line
\* break
DeclStatus ==
    [name |-> "Status", kind |-> "enum", isExported |-> TRUE,
     fullText |-> <<"\n","e","x","p","o","r","t"," ","e","n","u","m"," ","S","t","a","t","u","s"," ","{"," ","A"," ","}">>,
     properties |-> <<>>]

DeclStatusType ==
    [name |-> "StatusType", kind |-> "type", isExported |-> TRUE,
     fullText |-> <<"e","x","p","o","r","t"," ","t","y","p","e"," ","S","t","a","t","u","s","T","y","p","e"," ","="," ","'","a","c","t","i","v","e","'"," ","|"," ","'","i","n","a","c","t","i","v","e","'">>,
     properties |-> <<>>]

\* the StatusType alias after an edit of its body
DeclStatusTypeEdited ==
    [name |-> "StatusType", kind |-> "type", isExported |-> TRUE,
     fullText |-> <<"e","x","p","o","r","t"," ","t","y","p","e"," ","S","t","a","t","u","s","T","y","p","e"," ","="," ","'","o","n","'"," ","|"," ","'","o","f","f","'">>,
     properties |-> <<>>]

\* a declaration that follows a line comment: the comment is leading trivia
\* of the node, so getFullText() holds it
DeclNoted ==
    [name |-> "Noted", kind |-> "interface", isExported |-> TRUE,
     fullText |-> <<"/","/"," ","a","n","y"," ","i","d","\n","e","x","p","o","r","t"," ","i","n","t","e","r","f","a","c","e"," ","N","o","t","e","d"," ","{"," ","i","d",":"," ","s","t","r","i","n","g"," ","}">>,
     properties |-> <<[name |-> "id", hasTypeNode |-> TRUE, typeText |-> <<"s","t","r","i","n","g">>]>>]

\* an alias of a string literal type
DeclLabel ==
    [name |-> "Label", kind |-> "type", isExported |-> TRUE,
     fullText |-> <<"e","x","p","o","r","t"," ","t","y","p","e"," ","L","a","b","e","l"," ","="," ","'","a","n","y","'">>,
     properties |-> <<>>]

DeclPayment ==
    [name |-> "Payment", kind |-> "interface", isExported |-> TRUE,
     fullText |-> <<"e","x","p","o","r","t"," ","i","n","t","e","r","f","a","c","e"," ","P","a","y","m","e","n","t"," ","{"," ","m","e","t","h","o","d",":"," ","s","t","r","i","n","g",";"," ","a","m","o","u","n","t",":"," ","n","u","m","b","e","r"," ","}">>,
     properties |-> <<[name |-> "method", hasTypeNode |-> TRUE, typeText |-> <<"s","t","r","i","n","g">>], [name |-> "amount", hasTypeNode |-> TRUE, typeText |-> <<"n","u","m","b","e","r">>]>>]

Spell ==
    ("GoodType" :> <<"G","o","o","d","T","y","p","e">>) @@
    ("BadType" :> <<"B","a","d","T","y","p","e">>) @@
    ("Many" :> <<"M","a","n","y">>) @@
    ("UserResponse" :> <<"U","s","e","r","R","e","s","p","o","n","s","e">>) @@
    ("Product" :> <<"P","r","o","d","u","c","t">>) @@
    ("ApiClient" :> <<"A","p","i","C","l","i","e","n","t">>) @@
    ("InternalHelper" :> <<"I","n","t","e","r","n","a","l","H","e","l","p","e","r">>) @@
    ("Loose" :> <<"L","o","o","s","e">>) @@
    ("Status" :> <<"S","t","a","t","u","s">>) @@
    ("StatusType" :> <<"S","t","a","t","u","s","T","y","p","e">>) @@
    ("Payment" :> <<"P","a","y","m","e","n","t">>) @@
    ("Noted" :> <<"N","o","t","e","d">>) @@
    ("Label" :> <<"L","a","b","e","l">>) @@
    ("MyAPI" :> <<"M","y","A","P","I">>) @@
    ("Test" :> <<"T","e","s","t">>) @@
    ("id" :> <<"i","d">>) @@
    ("company" :> <<"c","o","m","p","a","n","y">>) @@
    ("value" :> <<"v","a","l","u","e">>) @@
    ("data" :> <<"d","a","t","a">>) @@
    ("x" :> <<"x">>) @@
    ("method" :> <<"m","e","t","h","o","d">>) @@
    ("amount" :> <<"a","m","o","u","n","t">>)


Catalogue ==
    {DeclGoodType, DeclBadType, DeclMany, DeclUserResponse, DeclProduct,
     DeclApiClient, DeclInternalHelper, DeclLoose, DeclStatus}

\* the declarations of all source files together, in file and source order:
\* n declarations of decls
DeclSequences(decls, n) == [1..n -> decls]

\* where each of n files ends inside a sequence of len declarations, every
\* file holding at least one of them
FileEnds(n, len) ==
    {b \in [1..n - 1 -> 1..len - 1] : \A k \in 1..n - 2 : b[k] < b[k + 1]}

\* n source files, each a sequence of top-level declarations in source order
SplitIntoFiles(decls, n, b) ==
    [k \in 1..n |->
        SubSeq(decls, (IF k = 1 THEN 0 ELSE b[k - 1]) + 1,
                      IF k = n THEN Len(decls) ELSE b[k])]

\* files is a list of one to maxFiles files holding at most MaxDecls
\* declarations of decls together (a single file may be empty)
InputsOf(decls, maxFiles, files) ==
    \E len \in 0..MaxDecls, n \in 1..maxFiles :
        \E seq \in DeclSequences(decls, len) :
            \E b \in FileEnds(n, len) :
                files = SplitIntoFiles(seq, n, b)

\* the README's discriminated-union example: a file declaring Payment
PaymentInput == <<<<DeclPayment>>>>

\* the file lists handed to extract()
Inputs(files) ==
    InputsOf(Catalogue, MaxFiles, files) \/ files = PaymentInput

\* ExtractionRules of TestExtractor's caller: no excludeTypes, no validators,
\* no transforms, the naming prefix 'Test'
TestRules ==
    [adapter |-> "Test", apiId |-> "test-api",
     excludeTypes |-> {}, validators |-> {},
     transforms |-> <<>>, naming |-> [prefix |-> "Test"]]

\* rules.transforms of MyAPITypeExtractor: the entries that discriminate a
\* base type (the entries for User and Order synthesize no type)
PaymentTransform ==
    <<[base |-> "Payment", discriminate |-> "method",
       variants |-> <<[literal |-> <<"c","a","r","d">>,
                       name |-> "CardPayment"],
                      [literal |-> <<"b","a","n","k">>,
                       name |-> "BankPayment"],
                      [literal |-> <<"c","r","y","p","t","o">>,
                       name |-> "CryptoPayment"]>>]>>

\* ExtractionRules built by MyAPITypeExtractor's constructor
MyAPIRules ==
    [adapter |-> "MyAPI", apiId |-> "myapi",
     excludeTypes |-> {"InternalHelper", "TestMock", "DeprecatedType"},
     validators |-> {"Product", "Order", "User"},
     transforms |-> PaymentTransform, naming |-> [prefix |-> "MyAPI"]]

\* MyAPITypeExtractor with customRules overriding excludeTypes
MyAPICustomRules ==
    [adapter |-> "MyAPI", apiId |-> "myapi",
     excludeTypes |-> {"GoodType", "ApiClient", "Status", "Many"},
     validators |-> {"Product", "Order", "User"},
     transforms |-> PaymentTransform, naming |-> [prefix |-> "MyAPI"]]

RuleSets == {TestRules, MyAPIRules, MyAPICustomRules}

----------------------------------------------------------------------------
(* ExtractionContext *)

\* startTime: Date.now() read by the constructor, the clock's origin
NewMetrics ==
    [startTime |-> 0, filesParsed |-> 0, typesExtracted |-> 0, transformsApplied |-> 0,
     validationsPassed |-> 0, validationsFailed |-> 0, anyTypeViolations |-> 0]

\* the context built by BaseTypeExtractor's constructor
NewContext == [types |-> <<>>, metrics |-> NewMetrics, errors |-> <<>>]

\* one ExtractionError; message is the message template, typeName / detail / n
\* its interpolated parts
ErrorEntry(file, message, typeName, detail, n, type) ==
    [file |-> file, message |-> message, typeName |-> typeName,
     detail |-> detail, n |-> n, type |-> type]

addError(c, entry) == [c EXCEPT !.errors = Append(@, entry)]

\* variant: a key that exists keeps its first value
MapSetKeepFirst(types, t) ==
    IF \E i \in 1..Len(types) : types[i].name = t.name
    THEN types
    ELSE Append(types, t)

\* Map.prototype.set: an existing key keeps its position, a new key is appended
MapSet(types, t) ==
    IF \E i \in 1..Len(types) : types[i].name = t.name
    THEN [i \in 1..Len(types) |->
            IF types[i].name = t.name THEN t ELSE types[i]]
    ELSE Append(types, t)

----------------------------------------------------------------------------
(* Property type rendering *)

\* rendered type text is a sequence of pieces: plain characters and branded
\* unknown placeholders
Ch(c) == [c |-> c, brand |-> "", context |-> <<>>]

\* `unknown & { readonly __brand: '<context>'; readonly __context: '<detail>' }`
\* detail is kept as its '.'-separated segments
createBrandedUnknown(brandContext, detail) ==
    <<[c |-> "", brand |-> brandContext, context |-> detail]>>

\* /\bany\b/ matches at 0-based index i
BareAnyMatchesAt(s, i) ==
    /\ WordBoundaryAt(s, i)
    /\ LiteralAt(s, AnyWord, i)
    /\ WordBoundaryAt(s, i + Len(AnyWord))

RECURSIVE ReplaceFrom(_, _, _)
ReplaceFrom(typeString, propName, i) ==
    IF i >= Len(typeString) THEN <<>>
    ELSE IF BareAnyMatchesAt(typeString, i)
         THEN createBrandedUnknown("replaced-any", <<propName>>)
              \o ReplaceFrom(typeString, propName, i + Len(AnyWord))
         ELSE <<Ch(typeString[i + 1])>>
              \o ReplaceFrom(typeString, propName, i + 1)

replaceSenseAnyTypes(typeString, propName) ==
    ReplaceFrom(typeString, propName, 0)

\* prop.getParent()?.getKindName() of an interface's property signature
ParentKindName == "InterfaceDeclaration"

getPropertyTypeString(prop) ==
    IF ~prop.hasTypeNode
    THEN createBrandedUnknown("property", <<prop.name>>)
    ELSE IF prop.typeText = AnyWord
         THEN createBrandedUnknown("property", <<ParentKindName, prop.name>>)
         ELSE replaceSenseAnyTypes(prop.typeText, prop.name)

extractProperties(node) ==
    [i \in 1..Len(node.properties) |->
        [name |-> node.properties[i].name,
         type |-> getPropertyTypeString(node.properties[i])]]

----------------------------------------------------------------------------
(* Declaration extraction *)

ExtractedType(name, kind, node, file, properties) ==
    [name |-> name, kind |-> kind, definition |-> node.fullText,
     sourceFile |-> file, isExported |-> node.isExported,
     properties |-> properties]

\* variant: typesExtracted follows the number of keys in the map
StoreCountingKeys(c, t) ==
    [c EXCEPT !.types = MapSet(@, t),
              !.metrics.typesExtracted = Len(MapSet(c.types, t))]

Store(c, t) ==
    [c EXCEPT !.types = MapSet(@, t),
              !.metrics.typesExtracted = @ + 1]

\* variant: the exclusion test comes after the counter update
extractInterfaceCountingExcluded(c, r, node, file) ==
    IF node.name \in r.excludeTypes
    THEN [c EXCEPT !.metrics.typesExtracted = @ + 1]
    ELSE Store(c, ExtractedType(node.name, "interface", node, file,
                                extractProperties(node)))

extractInterface(c, r, node, file) ==
    IF node.name \in r.excludeTypes THEN c
    ELSE Store(c, ExtractedType(node.name, "interface", node, file,
                                extractProperties(node)))

extractTypeAlias(c, r, node, file) ==
    IF node.name \in r.excludeTypes THEN c
    ELSE Store(c, ExtractedType(node.name, "type", node, file, <<>>))

extractEnum(c, r, node, file) ==
    IF node.name \in r.excludeTypes THEN c
    ELSE Store(c, ExtractedType(node.name, "enum", node, file, <<>>))

extractClass(c, r, node, file) ==
    LET name == IF node.name = "" THEN "AnonymousClass" ELSE node.name
    IN  IF name \in r.excludeTypes THEN c
        ELSE Store(c, ExtractedType(name, "class", node, file, <<>>))

\* BaseTypeExtractor.shouldExtractClass and MyAPITypeExtractor's override
shouldExtractClass(r, node) ==
    IF r.adapter = "MyAPI"
    THEN \/ Includes(Spell[node.name], <<"C","l","i","e","n","t">>)
         \/ Includes(Spell[node.name], <<"S","e","r","v","i","c","e">>)
         \/ Includes(Spell[node.name], <<"A","P","I">>)
    ELSE FALSE

OfKind(file, kind) == SelectSeq(file, LAMBDA d : d.kind = kind)

\* the order in which parseFile visits the declarations of one file
VisitOrder(file) ==
    OfKind(file, "interface") \o OfKind(file, "type")
        \o OfKind(file, "enum") \o OfKind(file, "class")

\* what parseFile does with one declaration
visitDeclaration(c, r, node, file) ==
    CASE node.kind = "interface" -> extractInterface(c, r, node, file)
      [] node.kind = "type"      -> extractTypeAlias(c, r, node, file)
      [] node.kind = "enum"      -> extractEnum(c, r, node, file)
      [] node.kind = "class"     ->
            IF shouldExtractClass(r, node)
            THEN extractClass(c, r, node, file) ELSE c

----------------------------------------------------------------------------
(* Adapter hooks: applyTransformations and validateTypes *)

PropNames(t) == {t.properties[i].name : i \in 1..Len(t.properties)}

\* the characters of a rendered property type (placeholders contribute none)
TypeText(type) ==
    LET plain == SelectSeq(type, LAMBDA p : p.brand = "")
    IN  [i \in 1..Len(plain) |-> plain[i].c]

shouldCreateDiscriminatedUnion(t) ==
    \E i \in 1..Len(t.properties) :
        /\ t.properties[i].name \in {"type", "kind", "status", "state"}
        /\ Includes(TypeText(t.properties[i].type), <<"|">>)
        /\ Includes(TypeText(t.properties[i].type), <<"'">>)

\* outcome of a stage: the context it leaves, and whether it threw (n is the
\* count interpolated into the thrown message)
Normal(c) == [ctx |-> c, thrown |-> FALSE, n |-> 0]

Thrown(c, n) == [ctx |-> c, thrown |-> TRUE, n |-> n]

applyTransformations(c, r) ==
    IF r.adapter = "MyAPI"
    THEN LET hits == {i \in 1..Len(c.types) :
                         shouldCreateDiscriminatedUnion(c.types[i])}
         IN  Normal([c EXCEPT !.metrics.transformsApplied =
                                  @ + Cardinality(hits)])
    ELSE Normal(c)

\* TestExtractor.validateTypes, one loop iteration
TestValidateOne(c, t) ==
    IF t.kind = "interface" /\ Len(t.properties) = 0
    THEN addError(c, ErrorEntry(t.sourceFile, "has-no-properties", t.name,
                                <<>>, 0, ""))
    ELSE c

\* variant: a Response type that fails the check is deleted from the context
MyAPIValidateOneDropping(c, t) ==
    IF EndsWith(Spell[t.name], <<"R","e","s","p","o","n","s","e">>)
    THEN IF "success" \notin PropNames(t)
         THEN [addError(c, ErrorEntry(t.sourceFile, "missing-success", t.name,
                                      <<>>, 0, t.name))
                 EXCEPT !.metrics.validationsFailed = @ + 1,
                        !.types = SelectSeq(@, LAMBDA x : x.name # t.name)]
         ELSE [c EXCEPT !.metrics.validationsPassed = @ + 1]
    ELSE c

\* MyAPITypeExtractor.validateTypes, one loop iteration
MyAPIValidateOne(c, t) ==
    IF EndsWith(Spell[t.name], <<"R","e","s","p","o","n","s","e">>)
    THEN IF "success" \notin PropNames(t)
         THEN [addError(c, ErrorEntry(t.sourceFile, "missing-success", t.name,
                                      <<>>, 0, t.name))
                 EXCEPT !.metrics.validationsFailed = @ + 1]
         ELSE [c EXCEPT !.metrics.validationsPassed = @ + 1]
    ELSE c

RECURSIVE ValidateFrom(_, _, _)
ValidateFrom(c, r, i) ==
    IF i > Len(c.types) THEN c
    ELSE ValidateFrom(IF r.adapter = "MyAPI"
                      THEN MyAPIValidateOne(c, c.types[i])
                      ELSE TestValidateOne(c, c.types[i]),
                      r, i + 1)

\* variant: a recorded validation failure is rethrown
validateTypesFatal(c, r) ==
    LET v == ValidateFrom(c, r, 1)
    IN  IF Len(v.errors) > Len(c.errors) THEN Thrown(v, 0) ELSE Normal(v)

validateTypes(c, r) == Normal(ValidateFrom(c, r, 1))

\* MyAPITypeExtractor.validateProduct: the messages it returns
validateProduct(t) ==
    LET required == <<"id", "name", "price", "currency">>
        missing  == SelectSeq(required, LAMBDA f : f \notin PropNames(t))
        price    == {i \in 1..Len(t.properties) : t.properties[i].name = "price"}
        badPrice == \E i \in price :
                        /\ \A j \in price : i <= j
                        /\ ~Includes(TypeText(t.properties[i].type),
                                     <<"n","u","m","b","e","r">>)
        errors   == [i \in 1..Len(missing) |-> <<"missing-required-field", missing[i]>>]
                    \o (IF badPrice THEN <<<<"price-must-be-number", "price">>>> ELSE <<>>)
    IN  [valid |-> Len(errors) = 0, errors |-> errors]

\* MyAPITypeExtractor.validateOrder
validateOrder(t) ==
    LET items  == {i \in 1..Len(t.properties) : t.properties[i].name = "items"}
        errors == IF items = {} THEN <<<<"order-must-have-items", "items">>>>
                  ELSE IF \E i \in items :
                            /\ \A j \in items : i <= j
                            /\ ~Includes(TypeText(t.properties[i].type), <<"[","]">>)
                       THEN <<<<"order-items-must-be-array", "items">>>>
                       ELSE <<>>
    IN  [valid |-> Len(errors) = 0, errors |-> errors]

\* the predicate rules.validators holds for a type name
RunValidator(name, t) ==
    IF name = "Order" THEN validateOrder(t) ELSE validateProduct(t)

----------------------------------------------------------------------------
(* Forbidden-token guard *)

\* the addError calls detectAnyTypes makes for one violating type
RECURSIVE AddOccurrences(_, _, _, _)
AddOccurrences(c, t, occurrences, i) ==
    IF i > Len(occurrences) THEN c
    ELSE AddOccurrences(
            addError(c, ErrorEntry(t.sourceFile, "contains-any", t.name,
                                   occurrences[i].context, 0,
                                   "any-type-violation")),
            t, occurrences, i + 1)

RECURSIVE DetectFrom(_, _)
DetectFrom(c, i) ==
    IF i > Len(c.types) THEN Normal(c)
    ELSE LET t == c.types[i]
             anyOccurrences == findAnyInDefinition(t.definition)
         IN  IF Len(anyOccurrences) > 0
             THEN Thrown(AddOccurrences(
                            [c EXCEPT !.metrics.anyTypeViolations = @ + 1],
                            t, anyOccurrences, 1),
                         Len(anyOccurrences))
             ELSE DetectFrom(c, i + 1)

detectAnyTypes(c) == DetectFrom(c, 1)

\* variant: the catch block starts the context afresh for the failure
CatchExtractResetting(outcome) ==
    IF outcome.thrown
    THEN addError(NewContext,
                  ErrorEntry(0, "extraction-failed", "", <<>>, outcome.n, ""))
    ELSE outcome.ctx

\* the catch block of extract(): the failure becomes one more error entry
CatchExtract(outcome) ==
    IF outcome.thrown
    THEN addError(outcome.ctx,
                  ErrorEntry(0, "extraction-failed", "", <<>>, outcome.n, ""))
    ELSE outcome.ctx

RECURSIVE VisitFrom(_, _, _, _, _)
\* parseFile's visits of one file's declarations from position i on
VisitFrom(c, r, decls, file, i) ==
    IF i > Len(decls) THEN c
    ELSE VisitFrom(visitDeclaration(c, r, decls[i], file), r, decls, file,
                   i + 1)

RECURSIVE ParseFrom(_, _, _, _)
\* the parse loop of extract() from file f on
ParseFrom(c, r, files, f) ==
    IF f > Len(files) THEN c
    ELSE ParseFrom(
            VisitFrom([c EXCEPT !.metrics.filesParsed = @ + 1], r,
                      VisitOrder(files[f]), f, 1),
            r, files, f + 1)

\* BaseTypeExtractor.extract as a whole on the instance whose context is c:
\* the context it returns
extractFrom(c, files, r) ==
    LET parsed      == ParseFrom(c, r, files, 1)
        transformed == applyTransformations(parsed, r)
        validated   == validateTypes(transformed.ctx, r)
        guarded     == detectAnyTypes(validated.ctx)
    IN  IF transformed.thrown THEN CatchExtract(transformed)
        ELSE IF validated.thrown THEN CatchExtract(validated)
        ELSE CatchExtract(guarded)

\* the first extract() call of an instance: the context is the one the
\* constructor built
extract(files, r) == extractFrom(NewContext, files, r)

----------------------------------------------------------------------------
(* TypeGenerator *)

LowerCase ==
    <<"a","b","c","d","e","f","g","h","i","j","k","l","m","n","o","p","q","r",
      "s","t","u","v","w","x","y","z">>

UpperCase ==
    <<"A","B","C","D","E","F","G","H","I","J","K","L","M","N","O","P","Q","R",
      "S","T","U","V","W","X","Y","Z">>

IsUpper(ch) == \E i \in 1..Len(UpperCase) : UpperCase[i] = ch

\* primary collation weight of a letter: case is ignored
LetterRank(ch) ==
    CHOOSE i \in 1..Len(LowerCase) : LowerCase[i] = ch \/ UpperCase[i] = ch

RECURSIVE ComparePrimary(_, _, _)
\* -1, 0, 1: comparison of a and b from position i on, ignoring case
ComparePrimary(a, b, i) ==
    IF i > Len(a) /\ i > Len(b) THEN 0
    ELSE IF i > Len(a) THEN -1
    ELSE IF i > Len(b) THEN 1
    ELSE IF LetterRank(a[i]) < LetterRank(b[i]) THEN -1
    ELSE IF LetterRank(a[i]) > LetterRank(b[i]) THEN 1
    ELSE ComparePrimary(a, b, i + 1)

RECURSIVE CompareCase(_, _, _)
\* tie-break of equal-ignoring-case names: lower case sorts first
CompareCase(a, b, i) ==
    IF i > Len(a) THEN 0
    ELSE IF IsUpper(a[i]) = IsUpper(b[i]) THEN CompareCase(a, b, i + 1)
    ELSE IF IsUpper(b[i]) THEN -1 ELSE 1

\* a.name.localeCompare(b.name) for identifiers made of letters
localeCompare(a, b) ==
    LET primary == ComparePrimary(Spell[a], Spell[b], 1)
    IN  IF primary # 0 THEN primary ELSE CompareCase(Spell[a], Spell[b], 1)

RECURSIVE InsertSorted(_, _)
InsertSorted(sorted, t) ==
    IF sorted = <<>> THEN <<t>>
    ELSE IF localeCompare(t.name, Head(sorted).name) < 0
         THEN <<t>> \o sorted
         ELSE <<Head(sorted)>> \o InsertSorted(Tail(sorted), t)

RECURSIVE SortByName(_)
\* Array.prototype.sort with the name comparator (stable)
SortByName(ts) ==
    IF ts = <<>> THEN <<>>
    ELSE InsertSorted(SortByName(SubSeq(ts, 1, Len(ts) - 1)), ts[Len(ts)])

\* variant: the groups keep the insertion order of the context
groupTypesByKindUnsorted(types) ==
    [kind \in {"interface", "type", "enum", "class"} |->
        SelectSeq(types, LAMBDA t : t.kind = kind)]

\* TypeGenerator.groupTypesByKind
groupTypesByKind(types) ==
    [kind \in {"interface", "type", "enum", "class"} |->
        SortByName(SelectSeq(types, LAMBDA t : t.kind = kind))]

\* a written file: for the unified file, metrics is the snapshot printed in
\* the metadata preamble, duration and generated its two time stamps, and
\* body its sections; files without preamble leave them at zero
OutputFile(kind, apiId, total, body) ==
    [kind |-> kind, apiId |-> apiId, total |-> total, metrics |-> NewMetrics,
     duration |-> 0, generated |-> 0, body |-> body]

NoFile == OutputFile("none", "", 0, <<>>)

UnifiedPath(apiId) == <<"unified", apiId>>

IndexPath == <<"index", "">>

SplitPath(name) == <<"split", name>>

ExportWord == <<"e","x","p","o","r","t">>

\* String.prototype.startsWith
StartsWith(s, lit) == LiteralAt(s, lit, 0)

\* a rendered PropertyInfo.type as text; of a placeholder
\* `unknown & { readonly __brand: '..'; readonly __context: '..' }` the two
\* quoted tags are kept as one element each
RECURSIVE PropertyTypeText(_)
PropertyTypeText(type) ==
    IF type = <<>> THEN <<>>
    ELSE (IF Head(type).brand = "" THEN <<Head(type).c>>
          ELSE <<"u","n","k","n","o","w","n"," ","&"," ">> \o <<Head(type).brand>> \o Head(type).context)
         \o PropertyTypeText(Tail(type))

\* TypeGenerator.generateProperty (no documentation, readonly or optional
\* marker in the modelled sources)
generateProperty(prop) ==
    <<" ", " ">> \o Spell[prop.name] \o <<":", " ">>
        \o PropertyTypeText(prop.type) \o <<";", "\n">>

RECURSIVE JoinLines(_)
JoinLines(lines) ==
    IF lines = <<>> THEN <<>> ELSE Head(lines) \o JoinLines(Tail(lines))

generateInterface(type) ==
    (IF type.isExported THEN ExportWord \o <<" ">> ELSE <<>>)
        \o <<"i","n","t","e","r","f","a","c","e"," ">> \o Spell[type.name] \o <<" ", "{", "\n">>
        \o JoinLines([i \in 1..Len(type.properties) |->
                        generateProperty(type.properties[i])])
        \o <<"}">>

generateTypeAlias(type) ==
    IF type.isExported /\ ~StartsWith(type.definition, ExportWord)
    THEN ExportWord \o <<" ">> \o type.definition
    ELSE type.definition

generateEnum(type) ==
    IF type.isExported /\ ~StartsWith(type.definition, ExportWord)
    THEN ExportWord \o <<" ">> \o type.definition
    ELSE type.definition

generateClass(type) ==
    IF type.isExported /\ ~StartsWith(type.definition, ExportWord)
    THEN ExportWord \o <<" ">> \o type.definition
    ELSE type.definition

\* TypeGenerator.generateType (the modelled sources carry no documentation)
generateType(type) ==
    CASE type.kind = "interface" -> generateInterface(type)
      [] type.kind = "type"      -> generateTypeAlias(type)
      [] type.kind = "enum"      -> generateEnum(type)
      [] type.kind = "class"     -> generateClass(type)

\* one bucket of the unified file: the header with its count, then the
\* rendered declarations
Section(title, group) ==
    IF Len(group) > 0
    THEN <<[title |-> title, count |-> Len(group),
            names |-> [i \in 1..Len(group) |-> group[i].name],
            decls |-> [i \in 1..Len(group) |-> generateType(group[i])]]>>
    ELSE <<>>

\* the metrics generateMetadata prints
generateMetadata(c) ==
    [c.metrics EXCEPT !.startTime = 0, !.anyTypeViolations = 0]

\* the text generateUnifiedFile writes when the clock reads t: the metadata
\* preamble (both of its clock readings fall on t), then one section per
\* non-empty bucket
UnifiedContent(c, r, t) ==
    LET typesByKind == groupTypesByKind(c.types)
    IN  [kind |-> "unified", apiId |-> r.apiId,
         total |-> c.metrics.typesExtracted,
         metrics |-> generateMetadata(c),
         duration |-> t - c.metrics.startTime,
         generated |-> t,
         body |-> Section("INTERFACES", typesByKind["interface"])
                  \o Section("TYPE ALIASES", typesByKind["type"])
                  \o Section("ENUMS", typesByKind["enum"])
                  \o Section("CLASSES", typesByKind["class"])]

generateUnifiedFile(files, c, r, t) ==
    [files EXCEPT ![UnifiedPath(r.apiId)] = UnifiedContent(c, r, t)]

RECURSIVE SplitFrom(_, _, _, _)
SplitFrom(files, c, r, i) ==
    IF i > Len(c.types) THEN files
    ELSE SplitFrom(
            [files EXCEPT ![SplitPath(c.types[i].name)] =
                OutputFile("split", r.apiId, 1,
                           <<c.types[i].name, generateType(c.types[i])>>)],
            c, r, i + 1)

generateSplitFiles(files, c, r) == SplitFrom(files, c, r, 1)

generateIndexFile(files, c, r, out) ==
    LET exported == SelectSeq(c.types, LAMBDA t : t.isExported)
    IN  [files EXCEPT ![IndexPath] =
            OutputFile("index", r.apiId, Len(c.types),
                       IF out.splitTypes
                       THEN [i \in 1..Len(exported) |-> exported[i].name]
                       ELSE <<r.apiId>>)]

\* TypeGenerator.generate when the clock reads t
generate(files, c, r, out, t) ==
    LET written == IF out.splitTypes
                   THEN generateSplitFiles(files, c, r)
                   ELSE generateUnifiedFile(files, c, r, t)
    IN  IF out.generateIndex
        THEN generateIndexFile(written, c, r, out)
        ELSE written

----------------------------------------------------------------------------
(* RFCCompliantGenerator *)

\* no generate() call has raised
NoError == [message |-> "none", added |-> <<>>, removed |-> <<>>]

ContractsPath == <<"contracts", "">>

MapPath == <<"map", "">>

\* regex class \s
Whitespace == {" ", "\n"}

\* 0-based index of the first character at or after i that is not in class
\* (Len(s) if there is none)
SkipClass(s, i, class) ==
    CHOOSE j \in i..Len(s) :
        /\ \A k \in i..j - 1 : s[k + 1] \in class
        /\ j = Len(s) \/ s[j + 1] \notin class

\* String.prototype.trim
Trim(s) ==
    LET start == SkipClass(s, 0, Whitespace)
        ends  == {e \in start..Len(s) :
                     /\ e = start \/ s[e] \notin Whitespace
                     /\ \A k \in e + 1..Len(s) : s[k] \in Whitespace}
    IN  Substring(s, start, CHOOSE e \in ends : TRUE)

\* definition.split('\n') re-joined with '\n  ': every line after the first
\* is indented
RECURSIVE IndentLines(_)
IndentLines(s) ==
    IF s = <<>> THEN <<>>
    ELSE (IF Head(s) = "\n" THEN <<"\n", " ", " ">> ELSE <<Head(s)>>)
         \o IndentLines(Tail(s))

generatePropertyForContract(prop) ==
    <<" ", " ", " ", " ">> \o Spell[prop.name] \o <<":", " ">>
        \o PropertyTypeText(prop.type) \o <<";", "\n">>

generateInterfaceForContract(type) ==
    <<" ", " ">> \o ExportWord \o <<" ">> \o <<"i","n","t","e","r","f","a","c","e"," ">> \o Spell[type.name]
        \o <<" ", "{", "\n">>
        \o JoinLines([i \in 1..Len(type.properties) |->
                        generatePropertyForContract(type.properties[i])])
        \o <<" ", " ", "}", "\n">>

generateTypeAliasForContract(type) ==
    <<" ", " ">> \o ExportWord \o <<" ">>
        \o IndentLines(Trim(type.definition)) \o <<"\n">>

generateEnumForContract(type) ==
    <<" ", " ">> \o ExportWord \o <<" ">>
        \o IndentLines(Trim(type.definition)) \o <<"\n">>

\* RFCCompliantGenerator.groupTypesByKind: classes are skipped
groupTypesByKindForContract(types) ==
    [kind \in {"interface", "type", "enum", "class"} |->
        SortByName(SelectSeq(types,
                             LAMBDA t : t.kind = kind /\ t.kind # "class"))]

SectionForContract(title, group) ==
    IF Len(group) > 0
    THEN <<[title |-> title, count |-> Len(group),
            names |-> [i \in 1..Len(group) |-> group[i].name],
            decls |-> [i \in 1..Len(group) |->
                          CASE group[i].kind = "interface" ->
                                   generateInterfaceForContract(group[i])
                            [] group[i].kind = "type" ->
                                   generateTypeAliasForContract(group[i])
                            [] group[i].kind = "enum" ->
                                   generateEnumForContract(group[i])]]>>
    ELSE <<>>

\* generateContractsFile when the clock reads t: the preamble with its
\* metrics (both clock readings fall on t), then the sections of the module
\* body
generateContractsFile(c, r, t) ==
    LET typesByKind == groupTypesByKindForContract(c.types)
    IN  [kind |-> "contracts", apiId |-> r.apiId,
         total |-> c.metrics.typesExtracted,
         metrics |-> [c.metrics EXCEPT !.startTime = 0,
                                       !.validationsPassed = 0,
                                       !.validationsFailed = 0],
         duration |-> t - c.metrics.startTime,
         generated |-> t,
         body |-> SectionForContract("INTERFACES", typesByKind["interface"])
                  \o SectionForContract("TYPE ALIASES", typesByKind["type"])
                  \o SectionForContract("ENUMS", typesByKind["enum"])]

\* the alias every contracts file declares ahead of its sections
BrandedUnknownAlias ==
    <<" "," ","e","x","p","o","r","t"," ","t","y","p","e"," ","B","r","a",
    "n","d","e","d","U","n","k","n","o","w","n","<","T","B","r","a","n",
    "d"," ","e","x","t","e","n","d","s"," ","s","t","r","i","n","g"," ",
    "="," ","s","t","r","i","n","g",","," ","T","C","o","n","t","e","x",
    "t"," ","e","x","t","e","n","d","s"," ","s","t","r","i","n","g"," ",
    "="," ","s","t","r","i","n","g",">"," ","="," ","\n"," "," "," "," ",
    "u","n","k","n","o","w","n"," ","&"," ","{"," ","r","e","a","d","o",
    "n","l","y"," ","_","_","b","r","a","n","d",":"," ","T","B","r","a",
    "n","d",";"," ","r","e","a","d","o","n","l","y"," ","_","_","c","o",
    "n","t","e","x","t",":"," ","T","C","o","n","t","e","x","t"," ","}",
    ";","\n","\n">>

\* the declarations of a contracts file as text (the preamble is a comment
\* and a `declare module` line)
RECURSIVE SectionsText(_)
SectionsText(body) ==
    IF body = <<>> THEN <<>>
    ELSE JoinLines([i \in 1..Len(Head(body).decls) |->
                       Head(body).decls[i] \o <<"\n">>])
         \o SectionsText(Tail(body))

ContractsText(file) == BrandedUnknownAlias \o SectionsText(file.body)

DeclKeywords == {<<"i","n","t","e","r","f","a","c","e">>, <<"t","y","p","e">>, <<"e","n","u","m">>}

NoMatch == [end |-> -1, name |-> <<>>]

\* /export\s+(interface|type|enum)\s+(\w+)/ tried at 0-based index i
DeclRegexAt(s, i) ==
    IF ~LiteralAt(s, ExportWord, i) THEN NoMatch
    ELSE LET j   == SkipClass(s, i + Len(ExportWord), Whitespace)
             kws == {kw \in DeclKeywords : LiteralAt(s, kw, j)}
         IN  IF j = i + Len(ExportWord) \/ kws = {} THEN NoMatch
             ELSE LET kw == CHOOSE w \in kws : TRUE
                      k  == SkipClass(s, j + Len(kw), Whitespace)
                      e  == SkipClass(s, k, WordChars)
                  IN  IF k = j + Len(kw) \/ e = k THEN NoMatch
                      ELSE [end |-> e, name |-> Substring(s, k, e)]

\* the 0-based indexes of s at which the regex matches
DeclRegexHits(s) ==
    {i \in 0..Len(s) - Len(ExportWord) :
        s[i + 1] = ExportWord[1] /\ DeclRegexAt(s, i).end # -1}

\* the exec loop of extractTypeNames from regex position lastIndex on: the
\* leftmost match at or after lastIndex, then on from its end
RECURSIVE ScanTypeNames(_, _, _)
ScanTypeNames(s, hits, lastIndex) ==
    LET ahead == {i \in hits : i >= lastIndex}
    IN  IF ahead = {} THEN <<>>
        ELSE LET i == CHOOSE h \in ahead : \A g \in ahead : h <= g
                 m == DeclRegexAt(s, i)
             IN  <<m.name>> \o ScanTypeNames(s, hits, m.end)

\* the word characters in UTF-16 code unit order
CodeUnitOrder ==
    <<"0","1","2","3","4","5","6","7","8","9">> \o UpperCase \o <<"_">>
        \o LowerCase

CodeUnit(ch) == CHOOSE k \in 1..Len(CodeUnitOrder) : CodeUnitOrder[k] = ch

\* a < b for strings of word characters, as Array.prototype.sort() without
\* comparator orders them
RECURSIVE CodeUnitLess(_, _)
CodeUnitLess(a, b) ==
    IF b = <<>> THEN FALSE
    ELSE IF a = <<>> THEN TRUE
    ELSE IF Head(a) # Head(b) THEN CodeUnit(Head(a)) < CodeUnit(Head(b))
    ELSE CodeUnitLess(Tail(a), Tail(b))

RECURSIVE InsertByCodeUnit(_, _)
InsertByCodeUnit(sorted, n) ==
    IF sorted = <<>> THEN <<n>>
    ELSE IF CodeUnitLess(n, Head(sorted)) THEN <<n>> \o sorted
    ELSE <<Head(sorted)>> \o InsertByCodeUnit(Tail(sorted), n)

RECURSIVE SortNames(_)
SortNames(names) ==
    IF names = <<>> THEN <<>>
    ELSE InsertByCodeUnit(SortNames(SubSeq(names, 1, Len(names) - 1)),
                          names[Len(names)])

extractTypeNames(content) ==
    SortNames(ScanTypeNames(content, DeclRegexHits(content), 0))

\* variant: no name is ever found in the other list
ContainsNever(seq, x) == FALSE

\* Array.prototype.includes
Contains(seq, x) == \E i \in 1..Len(seq) : seq[i] = x

\* variant: every difference between the two texts is drift
DriftFoundInText(added, removed) == TRUE

\* hasDrift of two texts that differ
DriftFound(added, removed) == Len(added) > 0 \/ Len(removed) > 0

\* variant: the two filters are taken the wrong way round
detectDriftSwapped(c, r, existing, t) ==
    LET newContent    == generateContractsFile(c, r, t)
        existingTypes == extractTypeNames(ContractsText(existing))
        newTypes      == extractTypeNames(ContractsText(newContent))
        added   == SelectSeq(existingTypes, LAMBDA n : ~Contains(newTypes, n))
        removed == SelectSeq(newTypes, LAMBDA n : ~Contains(existingTypes, n))
    IN  IF existing = newContent
        THEN [hasDrift |-> FALSE, summary |-> "No drift detected",
              added |-> <<>>, removed |-> <<>>]
        ELSE [hasDrift |-> DriftFound(added, removed),
              summary |-> IF Len(added) > 0 \/ Len(removed) > 0
                          THEN "Added types / Removed types"
                          ELSE "Types modified but names unchanged",
              added |-> added, removed |-> removed]

\* detectDrift when the clock reads t, existing being the file at outputPath
detectDrift(c, r, existing, t) ==
    LET newContent    == generateContractsFile(c, r, t)
        existingTypes == extractTypeNames(ContractsText(existing))
        newTypes      == extractTypeNames(ContractsText(newContent))
        added   == SelectSeq(newTypes, LAMBDA n : ~Contains(existingTypes, n))
        removed == SelectSeq(existingTypes, LAMBDA n : ~Contains(newTypes, n))
    IN  IF existing = newContent
        THEN [hasDrift |-> FALSE, summary |-> "No drift detected",
              added |-> <<>>, removed |-> <<>>]
        ELSE [hasDrift |-> DriftFound(added, removed),
              summary |-> IF Len(added) > 0 \/ Len(removed) > 0
                          THEN "Added types / Removed types"
                          ELSE "Types modified but names unchanged",
              added |-> added, removed |-> removed]

\* the source files of the context's types, in order of first appearance
RECURSIVE SourceFilesOf(_)
SourceFilesOf(types) ==
    IF types = <<>> THEN <<>>
    ELSE LET rest == SourceFilesOf(SubSeq(types, 1, Len(types) - 1))
             f    == types[Len(types)].sourceFile
         IN  IF Contains(rest, f) THEN rest ELSE Append(rest, f)

\* generateExtractionMap when the clock reads t: per source file the sorted
\* names of its types
generateExtractionMap(files, c, r, t) ==
    LET sourceFiles == SourceFilesOf(c.types)
        namesOf(f)  == LET ofFile == SelectSeq(c.types,
                                               LAMBDA x : x.sourceFile = f)
                       IN  SortNames([i \in 1..Len(ofFile) |->
                                         Spell[ofFile[i].name]])
    IN  [files EXCEPT ![MapPath] =
            [OutputFile("map", r.apiId, Len(c.types),
                        [i \in 1..Len(sourceFiles) |->
                            [file |-> sourceFiles[i],
                             names |-> namesOf(sourceFiles[i])]])
             EXCEPT !.generated = t]]

\* variant: the contracts file and the map are written before the drift check
generateContractsWriteFirst(files, c, r, failOnDrift, t1, t2, t3) ==
    LET existing == files[ContractsPath]
        drift    == detectDrift(c, r, existing, t1)
        written  == generateExtractionMap(
                        [files EXCEPT ![ContractsPath] =
                            generateContractsFile(c, r, t2)],
                        c, r, t3)
    IN  IF failOnDrift /\ existing.kind # "none" /\ drift.hasDrift
        THEN [files |-> written,
              error |-> [message |-> "Type drift detected",
                         added |-> drift.added, removed |-> drift.removed]]
        ELSE [files |-> written, error |-> NoError]

\* RFCCompliantGenerator.generate with clock readings t1 (detectDrift),
\* t2 (the contracts file) and t3 (the extraction map): the files it leaves
\* and the error it raises, if any
generateContracts(files, c, r, failOnDrift, t1, t2, t3) ==
    LET existing == files[ContractsPath]
        drift    == detectDrift(c, r, existing, t1)
    IN  IF failOnDrift /\ existing.kind # "none" /\ drift.hasDrift
        THEN [files |-> files,
              error |-> [message |-> "Type drift detected",
                         added |-> drift.added, removed |-> drift.removed]]
        ELSE [files |-> generateExtractionMap(
                            [files EXCEPT ![ContractsPath] =
                                generateContractsFile(c, r, t2)],
                            c, r, t3),
              error |-> NoError]

OutputConfigs == [generateIndex : BOOLEAN, splitTypes : BOOLEAN]

\* DEFAULT_CONFIG.output
DefaultOutput == [generateIndex |-> TRUE, splitTypes |-> FALSE]

ApiIds == {rs.apiId : rs \in RuleSets}

\* every declaration the modelled sources hold
Declarations == Catalogue \cup {DeclPayment, DeclStatusType}

Paths ==
    {IndexPath, ContractsPath, MapPath} \cup {UnifiedPath(a) : a \in ApiIds}
        \cup {SplitPath(d.name) : d \in Declarations}

----------------------------------------------------------------------------
(* The extraction run *)

ScanIdle == scanDef = <<>> /\ scanOut = <<>> /\ scanPc = "idle"

Init ==
    /\ unloadable = {}
    /\ Inputs(sourceInput)
    /\ config \in [rules : RuleSets, output : {DefaultOutput}]
    /\ context = NewContext
    /\ pc = "start"
    /\ fileIdx = 0
    /\ declIdx = 0
    /\ stages = <<>>
    /\ result = "none"
    /\ preValidate = <<>>
    /\ fs = [p \in Paths |-> NoFile]
    /\ now = 0
    /\ genError = NoError
    /\ ScanIdle

\* extract(): the source files are added to the project, parsing begins
BeginExtract ==
    /\ pc = "start"
    /\ unloadable = {}
    /\ pc' = "parse"
    /\ fileIdx' = 1
    /\ declIdx' = 0
    /\ stages' = Append(stages, "parse")
    /\ UNCHANGED <<sourceInput, config, context, result, preValidate, fs,
                   scanDef, scanOut, scanPc,
                   now, genError,
                   unloadable>>

\* variant: the parse loop ends with the first file
AdvanceAfterFirstFile(i) ==
    IF i < Len(VisitOrder(sourceInput[fileIdx]))
    THEN /\ declIdx' = i + 1
         /\ UNCHANGED <<fileIdx, pc>>
    ELSE /\ declIdx' = 0
         /\ fileIdx' = fileIdx + 1
         /\ pc' = "transform"

\* position after the declaration at index i of the current file was handled
Advance(i) ==
    IF i < Len(VisitOrder(sourceInput[fileIdx]))
    THEN /\ declIdx' = i + 1
         /\ UNCHANGED <<fileIdx, pc>>
    ELSE /\ declIdx' = 0
         /\ fileIdx' = fileIdx + 1
         /\ pc' = IF fileIdx < Len(sourceInput) THEN "parse" ELSE "transform"

\* parseFile entered for the next source file
ParseFile ==
    /\ pc = "parse"
    /\ declIdx = 0
    /\ context' = [context EXCEPT !.metrics.filesParsed = @ + 1]
    /\ Advance(0)
    /\ UNCHANGED <<sourceInput, config, stages, result, preValidate, fs,
                   scanDef, scanOut, scanPc,
                   now, genError,
                   unloadable>>

\* the declaration parseFile is about to visit
CurrentDecl == VisitOrder(sourceInput[fileIdx])[declIdx]

\* parseFile visits one declaration
VisitDeclaration ==
    /\ pc = "parse"
    /\ declIdx > 0
    /\ context' = visitDeclaration(context, config.rules, CurrentDecl, fileIdx)
    /\ Advance(declIdx)
    /\ UNCHANGED <<sourceInput, config, stages, result, preValidate, fs,
                   scanDef, scanOut, scanPc,
                   now, genError,
                   unloadable>>

\* a stage of extract() ended with outcome: either the next stage follows or
\* the catch block records the failure and extract() returns the context
Continue(outcome, next) ==
    /\ context' = CatchExtract(outcome)
    /\ pc' = IF outcome.thrown THEN "extracted" ELSE next
    /\ result' = IF outcome.thrown \/ next = "extracted"
                 THEN "returned" ELSE result

ApplyTransformations ==
    /\ pc = "transform"
    /\ stages' = Append(stages, "transform")
    /\ Continue(applyTransformations(context, config.rules), "validate")
    /\ UNCHANGED <<sourceInput, config, fileIdx, declIdx, preValidate, fs,
                   scanDef, scanOut, scanPc,
                   now, genError,
                   unloadable>>

ValidateTypes ==
    /\ pc = "validate"
    /\ stages' = Append(stages, "validate")
    /\ preValidate' = context.types
    /\ Continue(validateTypes(context, config.rules), "guard")
    /\ UNCHANGED <<sourceInput, config, fileIdx, declIdx, fs,
                   scanDef, scanOut, scanPc,
                   now, genError,
                   unloadable>>

DetectAnyTypes ==
    /\ pc = "guard"
    /\ stages' = Append(stages, "guard")
    /\ Continue(detectAnyTypes(context), "extracted")
    /\ UNCHANGED <<sourceInput, config, fileIdx, declIdx, preValidate, fs,
                   scanDef, scanOut, scanPc,
                   now, genError,
                   unloadable>>

\* runExtraction: extract() returned a context; the generator is built from
\* the output section of the loaded configuration (any OutputConfig, read
\* here for the first time) and TypeGenerator.generate runs
Generate ==
    /\ pc = "extracted"
    /\ result = "returned"
    /\ \E out \in OutputConfigs :
          /\ config' = [config EXCEPT !.output = out]
          /\ IF out.splitTypes
             THEN /\ fs' = generate(fs, context, config.rules, out, now)
                  /\ now' = now
             ELSE \E t \in now..MaxTime :
                     /\ fs' = generate(fs, context, config.rules, out, t)
                     /\ now' = t
    /\ pc' = "complete"
    /\ UNCHANGED <<sourceInput, context, fileIdx, declIdx, stages,
                   result, preValidate, scanDef, scanOut, scanPc, genError,
                   unloadable>>

Next ==
    \/ BeginExtract
    \/ ParseFile
    \/ VisitDeclaration
    \/ ApplyTransformations
    \/ ValidateTypes
    \/ DetectAnyTypes
    \/ Generate

Spec == Init /\ [][Next]_vars

\* extract() on an input of which some files may be missing from the disk
LoadInit ==
    /\ Inputs(sourceInput)
    /\ unloadable \in SUBSET (1..Len(sourceInput))
    /\ config \in [rules : RuleSets, output : {DefaultOutput}]
    /\ context = NewContext
    /\ pc = "start"
    /\ fileIdx = 0
    /\ declIdx = 0
    /\ stages = <<>>
    /\ result = "none"
    /\ preValidate = <<>>
    /\ fs = [p \in Paths |-> NoFile]
    /\ now = 0
    /\ genError = NoError
    /\ ScanIdle

\* the error entry the catch block of extract() adds when addSourceFileAtPath
\* throws for the file at index f
FileNotFound(f) ==
    ErrorEntry(0, "extraction-failed", "", <<"File not found">>, f, "")

\* extract(): project.addSourceFileAtPath throws for the first file that
\* cannot be loaded, before any file is parsed; the catch block records the
\* failure and extract() returns the context
AddSourceFileFails ==
    /\ pc = "start"
    /\ unloadable # {}
    /\ LET f == CHOOSE i \in unloadable : \A j \in unloadable : i <= j
       IN  context' = addError(context, FileNotFound(f))
    /\ pc' = "extracted"
    /\ result' = "returned"
    /\ UNCHANGED <<sourceInput, config, fileIdx, declIdx, stages, preValidate,
                   fs, scanDef, scanOut, scanPc, now, genError, unloadable>>

LoadNext == Next \/ AddSourceFileFails

LoadSpec == LoadInit /\ [][LoadNext]_vars

----------------------------------------------------------------------------
(* findAnyInDefinition on arbitrary definition text *)

ScanAlphabet == {"a", "n", "y", "A", " "}

\* the definition texts of n characters
ScanTexts(n) == [1..n -> ScanAlphabet]

ScanInit ==
    /\ unloadable = {}
    /\ sourceInput = <<<<>>>>
    /\ config = [rules |-> TestRules, output |-> DefaultOutput]
    /\ context = NewContext
    /\ pc = "idle"
    /\ fileIdx = 0
    /\ declIdx = 0
    /\ stages = <<>>
    /\ result = "none"
    /\ preValidate = <<>>
    /\ fs = [p \in Paths |-> NoFile]
    /\ \E n \in 0..MaxLen : scanDef \in ScanTexts(n)
    /\ scanOut = <<>>
    /\ scanPc = "ready"
    /\ now = 0
    /\ genError = NoError

FindAny ==
    /\ scanPc = "ready"
    /\ scanOut' = findAnyInDefinition(scanDef)
    /\ scanPc' = "done"
    /\ UNCHANGED <<sourceInput, config, context, pc, fileIdx, declIdx, stages,
                   result, preValidate, fs, scanDef, now, genError,
                   unloadable>>

ScanNext == FindAny

ScanSpec == ScanInit /\ [][ScanNext]_vars

----------------------------------------------------------------------------
(* A caller that holds the context extract() returned and generates from it
   twice: the unified file with TypeGenerator, or the contracts file with
   RFCCompliantGenerator, the source losing a declaration in between or not *)

\* clean declarations of every kind
GenCatalogue ==
    {DeclGoodType, DeclStatusType, DeclStatus, DeclApiClient, DeclProduct}

\* one or two files of clean declarations
GenInputs(files) == InputsOf(GenCatalogue, 2, files)

GenInit ==
    /\ unloadable = {}
    /\ GenInputs(sourceInput)
    /\ config \in [rules : {MyAPIRules}, output : {DefaultOutput},
                   failOnDrift : BOOLEAN]
    /\ context = extract(sourceInput, config.rules)
    /\ pc = "extracted"
    /\ fileIdx = Len(sourceInput) + 1
    /\ declIdx = 0
    /\ stages = <<"parse", "transform", "validate", "guard">>
    /\ result = "returned"
    /\ preValidate = context.types
    /\ fs = [p \in Paths |-> NoFile]
    /\ now = 0
    /\ genError = NoError
    /\ ScanIdle

\* new TypeGenerator(DEFAULT_CONFIG.output).generate(context), a first and a
\* second time
GenerateTypes ==
    /\ pc \in {"extracted", "unified"}
    /\ \E t \in now..MaxTime :
          /\ fs' = generate(fs, context, config.rules, config.output, t)
          /\ now' = t
    /\ pc' = IF pc = "extracted" THEN "unified" ELSE "unified again"
    /\ UNCHANGED <<sourceInput, config, context, fileIdx, declIdx, stages,
                   result, preValidate, scanDef, scanOut, scanPc, genError,
                   unloadable>>

\* new RFCCompliantGenerator({failOnDrift}).generate(context), a first and a
\* second time; the clock readings of one call fall on the same instant
GenerateContracts ==
    /\ pc \in {"extracted", "generated", "changed"}
    /\ \E t \in now..MaxTime :
          LET outcome == generateContracts(fs, context, config.rules,
                                           config.failOnDrift, t, t, t)
          IN  /\ fs' = outcome.files
              /\ genError' = outcome.error
              /\ now' = t
    /\ pc' = IF pc = "extracted" THEN "generated" ELSE "regenerated"
    /\ UNCHANGED <<sourceInput, config, context, fileIdx, declIdx, stages,
                   result, preValidate, scanDef, scanOut, scanPc,
                   unloadable>>

\* the input without the declaration at position k of file f
WithoutDecl(files, f, k) ==
    [files EXCEPT ![f] = SubSeq(@, 1, k - 1) \o SubSeq(@, k + 1, Len(@))]

\* the source loses one declaration and is extracted again
RemoveDeclaration ==
    /\ pc = "generated"
    /\ \E f \in 1..Len(sourceInput) :
         \E k \in 1..Len(sourceInput[f]) :
            /\ sourceInput' = WithoutDecl(sourceInput, f, k)
            /\ context' = extract(sourceInput', config.rules)
            /\ preValidate' = context'.types
    /\ pc' = "changed"
    /\ UNCHANGED <<config, fileIdx, declIdx, stages, result, fs,
                   scanDef, scanOut, scanPc, now, genError,
                   unloadable>>

\* the body of a declaration is edited, its name kept, and the source is
\* extracted again
EditDeclaration ==
    /\ pc = "generated"
    /\ \E f \in 1..Len(sourceInput) :
         \E k \in 1..Len(sourceInput[f]) :
            /\ sourceInput[f][k] = DeclStatusType
            /\ sourceInput' = [sourceInput EXCEPT ![f][k] = DeclStatusTypeEdited]
            /\ context' = extract(sourceInput', config.rules)
            /\ preValidate' = context'.types
    /\ pc' = "changed"
    /\ UNCHANGED <<config, fileIdx, declIdx, stages, result, fs,
                   scanDef, scanOut, scanPc, now, genError,
                   unloadable>>

GenNext ==
    GenerateTypes \/ GenerateContracts \/ RemoveDeclaration \/ EditDeclaration


GenSpec == GenInit /\ [][GenNext]_vars

----------------------------------------------------------------------------
(* A second extract() call on the same extractor instance *)

\* the instance after its first extract() call returned
ReuseInit ==
    /\ unloadable = {}
    /\ Inputs(sourceInput)
    /\ config \in [rules : RuleSets, output : {DefaultOutput}]
    /\ context = extract(sourceInput, config.rules)
    /\ pc = "extracted"
    /\ fileIdx = Len(sourceInput) + 1
    /\ declIdx = 0
    /\ stages = <<"parse", "transform", "validate", "guard">>
    /\ result = "returned"
    /\ preValidate = context.types
    /\ fs = [p \in Paths |-> NoFile]
    /\ now = 0
    /\ genError = NoError
    /\ ScanIdle

\* extract() is entered again, with the same paths or with the path of one
\* more file: the project holds every file added so far, and this.context is
\* the object the constructor created
ExtractAgain ==
    /\ pc = "extracted"
    /\ \/ sourceInput' = sourceInput
       \/ /\ Len(sourceInput) < MaxFiles
          /\ \E d \in Catalogue : sourceInput' = Append(sourceInput, <<d>>)
    /\ pc' = "entered again"
    /\ result' = "none"
    /\ UNCHANGED <<config, context, fileIdx, declIdx, stages, preValidate,
                   fs, scanDef, scanOut, scanPc, now, genError,
                   unloadable>>

\* the second call runs its stages over the project's files and returns
ReturnAgain ==
    /\ pc = "entered again"
    /\ context' = extractFrom(context, sourceInput, config.rules)
    /\ pc' = "extracted again"
    /\ result' = "returned"
    /\ UNCHANGED <<sourceInput, config, fileIdx, declIdx, stages,
                   preValidate, fs, scanDef, scanOut, scanPc, now, genError,
                   unloadable>>

ReuseNext == ExtractAgain \/ ReturnAgain

ReuseSpec == ReuseInit /\ [][ReuseNext]_vars

----------------------------------------------------------------------------
(* Two pipeline invocations for two APIs, on separate extractor and
   generator instances and one output directory. In this specification
   sourceInput, config, context, pc and result hold one value per
   invocation. *)

Invocations == {1, 2}

PairCatalogue == {DeclGoodType, DeclStatus}

\* the declarations of the one source file of an invocation
PairFiles == UNION {DeclSequences(PairCatalogue, n) : n \in 0..MaxDecls}

PairInit ==
    /\ unloadable = {}
    /\ \E file1 \in PairFiles, file2 \in PairFiles :
          sourceInput = <<<<file1>>, <<file2>>>>
    /\ \E out1 \in OutputConfigs, out2 \in OutputConfigs :
          config = <<[rules |-> TestRules, output |-> out1],
                     [rules |-> MyAPIRules, output |-> out2]>>
    /\ context = <<NewContext, NewContext>>
    /\ pc = <<"start", "start">>
    /\ result = <<"none", "none">>
    /\ fileIdx = 0
    /\ declIdx = 0
    /\ stages = <<>>
    /\ preValidate = <<>>
    /\ fs = [p \in Paths |-> NoFile]
    /\ now = 0
    /\ genError = NoError
    /\ ScanIdle

\* invocation i: extract() on its own extractor instance
PairExtract ==
    /\ \E i \in Invocations :
          /\ pc[i] = "start"
          /\ context' = [context EXCEPT
                            ![i] = extract(sourceInput[i], config[i].rules)]
          /\ pc' = [pc EXCEPT ![i] = "extracted"]
          /\ result' = [result EXCEPT ![i] = "returned"]
    /\ UNCHANGED <<sourceInput, config, fileIdx, declIdx, stages, preValidate,
                   fs, scanDef, scanOut, scanPc, now, genError, unloadable>>

\* invocation i: generate() writes the unified file or the split files
PairWriteTypes ==
    /\ \E i \in Invocations :
          /\ pc[i] = "extracted"
          /\ IF config[i].output.splitTypes
             THEN /\ fs' = generateSplitFiles(fs, context[i], config[i].rules)
                  /\ now' = now
             ELSE \E t \in now..MaxTime :
                     /\ fs' = generateUnifiedFile(fs, context[i],
                                                  config[i].rules, t)
                     /\ now' = t
          /\ pc' = [pc EXCEPT ![i] = "written"]
    /\ UNCHANGED <<sourceInput, config, context, fileIdx, declIdx, stages,
                   result, preValidate, scanDef, scanOut, scanPc, genError,
                   unloadable>>

\* invocation i: generate() writes the index file, if configured, and returns
PairWriteIndex ==
    /\ \E i \in Invocations :
          /\ pc[i] = "written"
          /\ fs' = IF config[i].output.generateIndex
                   THEN generateIndexFile(fs, context[i], config[i].rules,
                                          config[i].output)
                   ELSE fs
          /\ pc' = [pc EXCEPT ![i] = "complete"]
    /\ UNCHANGED <<sourceInput, config, context, fileIdx, declIdx, stages,
                   result, preValidate, scanDef, scanOut, scanPc, now,
                   genError, unloadable>>

PairNext == PairExtract \/ PairWriteTypes \/ PairWriteIndex

PairSpec == PairInit /\ [][PairNext]_vars

----------------------------------------------------------------------------
(* An adapter whose applyTransformations applies a TypeTransform to the
   stored record of a type: addProperties appends a PropertyInfo as given,
   transformProperties replaces the type of a property; the definition text
   of the record is not rewritten *)

\* a type string of a TypeTransform, stored as it is given
GivenType(text) == [i \in 1..Len(text) |-> Ch(text[i])]

TransformTypeTexts == {<<"s","t","r","i","n","g">>, AnyWord}

\* the TypeTransform entries the adapter is given for the type GoodType
TypeTransforms ==
    {[field |-> "none", prop |-> "", type |-> <<>>]}
    \cup [field : {"addProperties"}, prop : {"data"},
          type : TransformTypeTexts]
    \cup [field : {"transformProperties"}, prop : {"id"},
          type : TransformTypeTexts]

\* the properties of a record after the TypeTransform tr
TransformProperties(properties, tr) ==
    CASE tr.field = "addProperties" ->
             Append(properties, [name |-> tr.prop, type |-> GivenType(tr.type)])
      [] tr.field = "transformProperties" ->
             [i \in 1..Len(properties) |->
                 IF properties[i].name = tr.prop
                 THEN [properties[i] EXCEPT !.type = GivenType(tr.type)]
                 ELSE properties[i]]
      [] OTHER -> properties

\* applyTransformations of the adapter, given tr for the type GoodType
applyTypeTransform(c, tr) ==
    Normal([c EXCEPT !.types =
               [i \in 1..Len(c.types) |->
                   IF c.types[i].name = "GoodType"
                      /\ c.types[i].kind = "interface"
                   THEN [c.types[i] EXCEPT
                           !.properties = TransformProperties(@, tr)]
                   ELSE c.types[i]],
            !.metrics.transformsApplied =
               IF tr.field = "none" THEN @ ELSE @ + 1])

\* BaseTypeExtractor.extract with that adapter
extractWith(files, r, tr) ==
    LET parsed      == ParseFrom(NewContext, r, files, 1)
        transformed == applyTypeTransform(parsed, tr)
        validated   == validateTypes(transformed.ctx, r)
        guarded     == detectAnyTypes(validated.ctx)
    IN  IF validated.thrown THEN CatchExtract(validated)
        ELSE CatchExtract(guarded)

HookCatalogue == {DeclGoodType, DeclBadType, DeclStatus}

HookInit ==
    /\ InputsOf(HookCatalogue, 1, sourceInput)
    /\ unloadable = {}
    /\ config = [rules |-> TestRules, output |-> DefaultOutput]
    /\ context = NewContext
    /\ pc = "start"
    /\ fileIdx = 0
    /\ declIdx = 0
    /\ stages = <<>>
    /\ result = "none"
    /\ preValidate = <<>>
    /\ fs = [p \in Paths |-> NoFile]
    /\ now = 0
    /\ genError = NoError
    /\ ScanIdle

\* extract() of the adapter, as a whole
ExtractWithTransform ==
    /\ pc = "start"
    /\ \E tr \in TypeTransforms :
          context' = extractWith(sourceInput, config.rules, tr)
    /\ pc' = "extracted"
    /\ result' = "returned"
    /\ stages' = <<"parse", "transform", "validate", "guard">>
    /\ fileIdx' = Len(sourceInput) + 1
    /\ UNCHANGED <<sourceInput, config, declIdx, preValidate, fs, scanDef,
                   scanOut, scanPc, now, genError, unloadable>>

HookNext == ExtractWithTransform \/ Generate

HookSpec == HookInit /\ [][HookNext]_vars

----------------------------------------------------------------------------
(* runExtraction on declarations that hold the word 'any' in a comment or
   in a string literal *)

NoteCatalogue == {DeclGoodType, DeclBadType, DeclNoted, DeclLabel}

NoteInit ==
    /\ InputsOf(NoteCatalogue, MaxFiles, sourceInput)
    /\ unloadable = {}
    /\ config = [rules |-> TestRules, output |-> DefaultOutput]
    /\ context = NewContext
    /\ pc = "start"
    /\ fileIdx = 0
    /\ declIdx = 0
    /\ stages = <<>>
    /\ result = "none"
    /\ preValidate = <<>>
    /\ fs = [p \in Paths |-> NoFile]
    /\ now = 0
    /\ genError = NoError
    /\ ScanIdle

NoteSpec == NoteInit /\ [][Next]_vars

\* extract() as a whole returns what its stages leave step by step
ExtractAgrees == pc = "extracted" => context = extract(sourceInput, config.rules)

----------------------------------------------------------------------------
(* Properties *)

\* whole words of a text: maximal runs of word characters
IsWordStart(s, p) == IsWordChar(s[p]) /\ (p = 1 \/ ~IsWordChar(s[p - 1]))

IsWordEnd(s, p) == IsWordChar(s[p]) /\ (p = Len(s) \/ ~IsWordChar(s[p + 1]))

\* 1-based start positions of the words of s that are exactly 'any'
StandaloneAny(s) ==
    {p \in 1..Len(s) :
        /\ IsWordStart(s, p)
        /\ p + 2 <= Len(s)
        /\ IsWordEnd(s, p + 2)
        /\ SubSeq(s, p, p + 2) = AnyWord}

\* indexes of the types whose definition holds the forbidden token
ViolatingTypes(types) ==
    {i \in 1..Len(types) : StandaloneAny(types[i].definition) # {}}

RECURSIVE SumOver(_, _)
SumOver(f, S) ==
    IF S = {} THEN 0
    ELSE LET x == CHOOSE y \in S : TRUE IN f[x] + SumOver(f, S \ {x})

\* forbidden-token occurrences over all types of the context
TotalOccurrences(types) ==
    SumOver([i \in 1..Len(types) |->
                Cardinality(StandaloneAny(types[i].definition))],
            1..Len(types))

ExtractEnded == pc \in {"extracted", "complete"}

GuardHasRun == \E i \in 1..Len(stages) : stages[i] = "guard"

\* C1: whenever at least one type of the context has a definition with the
\* forbidden 'any' token, extract() raises to its caller and never returns
\* the context normally.
C1_ExtractRaisesOnAny ==
    (ExtractEnded /\ ViolatingTypes(context.types) # {}) => result = "raised"

\* C2: in a pipeline run (extract, then generation as runExtraction drives
\* it) in which the guard found a forbidden-token occurrence, no output
\* artifact is ever written.
C2_NoWriteAfterGuardTrip ==
    context.metrics.anyTypeViolations > 0 =>
        \A p \in Paths : fs[p].kind = "none"

\* C3: once the guard has run, the violation counter equals the number of
\* types of the context whose definition holds at least one forbidden-token
\* occurrence.
C3_CounterCountsViolatingTypes ==
    GuardHasRun =>
        context.metrics.anyTypeViolations
            = Cardinality(ViolatingTypes(context.types))

ValidationMessages == {"has-no-properties", "missing-success"}

\* the error entries appended from the guard stage on
PostValidationErrors ==
    SelectSeq(context.errors, LAMBDA e : e.message \notin ValidationMessages)

\* C4: when the guard trips, context.errors holds exactly one entry per
\* forbidden-token occurrence counted over all types (validators' own
\* entries set aside): no more and no fewer.
C4_OneErrorPerOccurrence ==
    (ExtractEnded /\ context.metrics.anyTypeViolations > 0) =>
        Len(PostValidationErrors) = TotalOccurrences(context.types)

\* C5: findAnyInDefinition returns one occurrence for each whole word 'any'
\* of the definition text and none for a word that merely contains the
\* letters; every reported snippet is taken from the definition.
C5_WholeWordOccurrences ==
    scanPc = "done" =>
        /\ Len(scanOut) = Cardinality(StandaloneAny(scanDef))
        /\ \A k \in 1..Len(scanOut) :
              /\ Includes(scanOut[k].context, AnyWord)
              /\ Includes(scanDef, scanOut[k].context)

\* C5 witness: a scanned text in which the letters 'any' appear only inside
\* longer words, for which no occurrence is reported
C5_Witness_Embedded ==
    /\ scanPc = "done"
    /\ Includes(scanDef, AnyWord)
    /\ Len(scanOut) = 0

ValidationErrors ==
    SelectSeq(context.errors, LAMBDA e : e.message \in ValidationMessages)

\* C6: a validation failure is not fatal: when validators recorded failures
\* and no forbidden token is present, extract() returns the context
\* normally, with the types it held before validation, the failures in
\* context.errors and nothing else, and the guard stage executed.
C6_ValidationFailureNotFatal ==
    (ExtractEnded /\ Len(ValidationErrors) > 0
                  /\ ViolatingTypes(context.types) = {}) =>
        /\ result = "returned"
        /\ GuardHasRun
        /\ context.types = preValidate
        /\ Len(context.types) > 0
        /\ context.errors = ValidationErrors

\* C6 witness: extract() has ended after a validator recorded a failure on
\* a context free of the forbidden token
C6_Witness_FailedValidation ==
    /\ pc = "extracted"
    /\ context.metrics.validationsFailed > 0
    /\ Len(ValidationErrors) > 0
    /\ ViolatingTypes(context.types) = {}

ValidateHasRun == \E i \in 1..Len(stages) : stages[i] = "validate"

\* the types of the context that have a predicate in rules.validators
TypesWithValidator ==
    {i \in 1..Len(context.types) :
        context.types[i].name \in config.rules.validators}

\* C7: during validation the predicate of rules.validators is applied to
\* every type whose name has one: a failing result leaves one error entry
\* per returned message and counts in validationsFailed, a passing result
\* counts in validationsPassed.
C7_ValidatorsApplied ==
    ValidateHasRun =>
        /\ \A i \in TypesWithValidator :
              LET t   == context.types[i]
                  res == RunValidator(t.name, t)
              IN  \A k \in 1..Len(res.errors) :
                     \E j \in 1..Len(context.errors) :
                        /\ context.errors[j].typeName = t.name
                        /\ context.errors[j].message = res.errors[k][1]
        /\ context.metrics.validationsPassed + context.metrics.validationsFailed
              >= Cardinality(TypesWithValidator)

\* the name a declaration is stored under
DeclName(node) ==
    IF node.kind = "class" /\ node.name = "" THEN "AnonymousClass" ELSE node.name

\* C8: visiting a declaration whose name is in rules.excludeTypes leaves the
\* context unchanged: types, typesExtracted and errors are all as before.
C8_ExcludedDeclarationIsNoOp ==
    [][(pc = "parse" /\ declIdx > 0
          /\ DeclName(CurrentDecl) \in config.rules.excludeTypes)
        => context' = context]_vars

\* every declaration of the input, as <<file index, position>>
AllDecls ==
    {fi \in (1..Len(sourceInput)) \X (1..MaxDecls) :
        fi[2] <= Len(sourceInput[fi[1]])}

DeclAt(fi) == sourceInput[fi[1]][fi[2]]

ExcludedDecls ==
    {fi \in AllDecls : DeclName(DeclAt(fi)) \in config.rules.excludeTypes}

\* C8 witness: extract() has ended on an input that held excluded
\* declarations of every kind visited, none of which reached the context
C8_Witness_ExcludedSkipped ==
    /\ pc = "extracted"
    /\ ExcludedDecls # {}
    /\ \E fi \in ExcludedDecls : DeclAt(fi).kind # "interface"
    /\ \E fi \in ExcludedDecls : DeclAt(fi).kind = "interface"
    /\ ExcludedDecls = AllDecls
    /\ context.types = <<>>
    /\ context.metrics.typesExtracted = 0
    /\ context.errors = <<>>

\* an input of recognized declarations, every property annotated, free of
\* the forbidden token
CleanInput ==
    \A fi \in AllDecls :
        /\ StandaloneAny(DeclAt(fi).fullText) = {}
        /\ \A k \in 1..Len(DeclAt(fi).properties) :
              DeclAt(fi).properties[k].hasTypeNode

NonExcludedDecls == AllDecls \ ExcludedDecls

\* C9 (as stated): on a clean input extract() returns typesExtracted equal to
\* the number of non-excluded top-level declarations and a violation counter
\* of 0.
C9_CountsEveryDeclaration ==
    (ExtractEnded /\ CleanInput) =>
        /\ context.metrics.typesExtracted = Cardinality(NonExcludedDecls)
        /\ context.metrics.anyTypeViolations = 0

\* the class declarations the adapter's shouldExtractClass hook turns down
RejectedClasses ==
    {fi \in AllDecls :
        /\ DeclAt(fi).kind = "class"
        /\ ~shouldExtractClass(config.rules, DeclAt(fi))}

\* C9 (amended): on a clean input extract() returns typesExtracted equal to
\* the number of non-excluded top-level interface, type alias and enum
\* declarations plus the non-excluded class declarations that
\* shouldExtractClass accepts, and a violation counter of 0.
C9_CountsExtractedDeclarations ==
    (ExtractEnded /\ CleanInput) =>
        /\ result = "returned"
        /\ context.metrics.typesExtracted
              = Cardinality(NonExcludedDecls \ RejectedClasses)
        /\ context.metrics.anyTypeViolations = 0

\* C9 witness: a clean run that counted two declarations, with an excluded
\* declaration or a rejected class left out
C9_Witness_CleanRun ==
    /\ pc = "extracted"
    /\ CleanInput
    /\ Cardinality(AllDecls) >= 2
    /\ context.metrics.typesExtracted = 1
    /\ context.metrics.anyTypeViolations = 0

\* C10: every interface property declared without a type annotation is
\* rendered as a branded placeholder with category 'property' and origin
\* '<owningDeclaration>.<propertyName>', the owner being the interface name.
C10_PlaceholderNamesOwner ==
    \A i \in 1..Len(context.types) :
        \A fi \in AllDecls :
            LET t == context.types[i]
                d == DeclAt(fi)
            IN  (d.kind = "interface" /\ d.name = t.name /\ t.kind = "interface") =>
                    \A k \in 1..Len(d.properties) :
                        ~d.properties[k].hasTypeNode =>
                            t.properties[k].type =
                                <<[c |-> "", brand |-> "property",
                                   context |-> <<t.name, d.properties[k].name>>]>>

\* the declaration a stored type was extracted from
SourceDecl(name) == CHOOSE d \in Declarations : d.name = name

\* the characters of a rendered type that holds no placeholder
RenderedText(type) == [i \in 1..Len(type) |-> type[i].c]

HasPlaceholder(type) == \E i \in 1..Len(type) : type[i].brand # ""

\* C11: for every property with an explicit type annotation, the rendered
\* PropertyInfo.type holds no placeholder and every 'any' token of the
\* annotation is still an 'any' token of the rendered type; only a property
\* without annotation is given a placeholder.
C11_AnnotatedAnyKept ==
    \A i \in 1..Len(context.types) :
        LET t == context.types[i]
            d == SourceDecl(t.name)
        IN  t.kind = "interface" =>
                \A k \in 1..Len(t.properties) :
                    d.properties[k].hasTypeNode =>
                        /\ ~HasPlaceholder(t.properties[k].type)
                        /\ StandaloneAny(RenderedText(t.properties[k].type))
                              = StandaloneAny(d.properties[k].typeText)


\* the unified artifact on disk is what generate() wrote from the present
\* context
UnifiedIsOfContext ==
    LET file == fs[UnifiedPath(config.rules.apiId)]
    IN  /\ file.kind = "unified"
        /\ file = UnifiedContent(context, config.rules, file.generated)

\* C12: a generate() call of the unified artifact from the context the
\* artifact on disk was generated from, the context unchanged, leaves the
\* artifact's text as it was, whenever the two calls happen.
C12_GenerateIdempotent ==
    [][(UnifiedIsOfContext /\ context' = context /\ config' = config)
          => fs'[UnifiedPath(config.rules.apiId)]
                = fs[UnifiedPath(config.rules.apiId)]]_vars


\* the contracts artifact on disk is what generate() wrote from the present
\* context
ContractsIsOfContext ==
    LET file == fs[ContractsPath]
    IN  /\ file.kind = "contracts"
        /\ file = generateContractsFile(context, config.rules, file.generated)

\* the types of new are those of old without the exported type named n
RemovedOne(old, new, n) ==
    /\ \E i \in 1..Len(old.types) :
          old.types[i].name = n /\ old.types[i].isExported
    /\ new.types = SelectSeq(old.types, LAMBDA x : x.name # n)

KindOf(c, n) ==
    (CHOOSE x \in {c.types[i] : i \in 1..Len(c.types)} : x.name = n).kind

TypeNamesOf(c) == {c.types[i].name : i \in 1..Len(c.types)}

ArtifactNames ==
    LET body == fs[ContractsPath].body
    IN  UNION {{Spell[body[s].names[i]] : i \in 1..Len(body[s].names)} :
                  s \in 1..Len(body)}

\* the names of the context's types a contracts artifact declares
ContractNames ==
    {Spell[context.types[i].name] :
        i \in {j \in 1..Len(context.types) :
                  context.types[j].kind # "class"}}

SeqRange(q) == {q[i] : i \in 1..Len(q)}

\* C14: a generate() call with failOnDrift, an artifact on disk and a
\* context whose declared names differ from the artifact's raises and leaves
\* every file as it was, the contracts artifact and the extraction map
\* included, and the error carries the names added and the names removed.
C14_DriftAbortsBeforeWrite ==
    [][(/\ pc' \in {"generated", "regenerated"}
        /\ config.failOnDrift
        /\ fs[ContractsPath].kind = "contracts"
        /\ ArtifactNames # ContractNames)
          => /\ fs' = fs
             /\ genError'.message = "Type drift detected"
             /\ SeqRange(genError'.added) = ContractNames \ ArtifactNames
             /\ SeqRange(genError'.removed)
                   = ArtifactNames \ ContractNames]_vars

\* C14 witness: a generate() call has failed on drift, and the contracts
\* artifact and the extraction map on disk are still those of the context
\* before the change
C14_Witness_ArtifactsKept ==
    /\ pc = "regenerated"
    /\ config.failOnDrift
    /\ genError.message = "Type drift detected"
    /\ fs[ContractsPath].kind = "contracts"
    /\ ~ContractsIsOfContext
    /\ fs[MapPath].kind = "map"
    /\ fs[MapPath].total = Len(context.types) + 1


\* the occurrences of the type named n in the extraction map on disk
MapEntriesOf(n) ==
    LET body == fs[MapPath].body
    IN  {e \in UNION {{<<k, i>> : i \in 1..Len(body[k].names)} :
                         k \in 1..Len(body)} :
            body[e[1]].names[e[2]] = Spell[n]}

\* C15: after every run that extracted without fatal error and generated,
\* the run of the command line included, the extraction map is on disk, every
\* type name of the context is in it exactly once, under its own source file,
\* and every list of names is sorted.
C15_MapWrittenOnEveryRun ==
    (pc = "complete" /\ result = "returned")
       => /\ fs[MapPath].kind = "map"
          /\ \A j \in 1..Len(context.types) :
                /\ Cardinality(MapEntriesOf(context.types[j].name)) = 1
                /\ \A e \in MapEntriesOf(context.types[j].name) :
                      fs[MapPath].body[e[1]].file = context.types[j].sourceFile
          /\ \A k \in 1..Len(fs[MapPath].body) :
                \A i \in 1..Len(fs[MapPath].body[k].names) - 1 :
                   CodeUnitLess(fs[MapPath].body[k].names[i],
                                fs[MapPath].body[k].names[i + 1])

\* the buckets in the order of emission: header title and kind
Buckets ==
    <<[title |-> "INTERFACES", kind |-> "interface"],
      [title |-> "TYPE ALIASES", kind |-> "type"],
      [title |-> "ENUMS", kind |-> "enum"],
      [title |-> "CLASSES", kind |-> "class"]>>

\* the names of the context's types of one kind, as a set
NamesOfKind(kind) ==
    {context.types[i].name :
        i \in {j \in 1..Len(context.types) : context.types[j].kind = kind}}

\* the sections of file are those of the first n buckets, in bucket order,
\* one per non-empty bucket, each listing the bucket's names in strictly
\* ascending order under a header that counts them
BucketsInOrder(file, n) ==
    LET body == file.body
        rank(s) == CHOOSE k \in 1..n : Buckets[k].title = body[s].title
    IN  /\ \A s \in 1..Len(body) :
              \E k \in 1..n : Buckets[k].title = body[s].title
        /\ \A s \in 1..Len(body) - 1 : rank(s) < rank(s + 1)
        /\ \A k \in 1..n :
              (NamesOfKind(Buckets[k].kind) # {})
                 <=> \E s \in 1..Len(body) : body[s].title = Buckets[k].title
        /\ \A s \in 1..Len(body) :
              LET names == body[s].names
                  set   == NamesOfKind(Buckets[rank(s)].kind)
              IN  /\ {names[i] : i \in 1..Len(names)} = set
                  /\ body[s].count = Cardinality(set)
                  /\ Len(names) = body[s].count
                  /\ Len(body[s].decls) = body[s].count
                  /\ \A i \in 1..Len(names) - 1 :
                        localeCompare(names[i], names[i + 1]) < 0

\* C16: the unified artifact a generate() call wrote holds the context's
\* types in the bucket order interfaces, type aliases, enums, classes, and
\* the contracts artifact in the order interfaces, type aliases, enums and
\* without any class; every bucket is sorted by name under a header whose
\* count is the bucket's size, so the order is a function of the set of
\* types alone.
C16_BucketsSortedByName ==
    /\ pc \in {"unified", "unified again"}
          => BucketsInOrder(fs[UnifiedPath(config.rules.apiId)], 4)
    /\ (pc = "generated" /\ fs[ContractsPath].kind = "contracts")
          => BucketsInOrder(fs[ContractsPath], 3)

\* C16 witness: the unified artifact was written from a context that holds
\* two types of one kind in descending order of name
C16_Witness_InsertedDescending ==
    /\ pc = "unified"
    /\ fs[UnifiedPath(config.rules.apiId)].kind = "unified"
    /\ Len(context.types) = 2
    /\ context.types[1].kind = context.types[2].kind
    /\ localeCompare(context.types[1].name, context.types[2].name) > 0

\* the number of export markers in a rendered declaration
ExportMarkers(text) ==
    Cardinality({i \in 0..Len(text) - Len(ExportWord) :
                    LiteralAt(text, ExportWord, i)})

\* every declaration of file under a header other than INTERFACES carries
\* one export marker
OneMarkerEach(file) ==
    \A s \in 1..Len(file.body) :
        file.body[s].title # "INTERFACES" =>
            \A i \in 1..Len(file.body[s].decls) :
                ExportMarkers(file.body[s].decls[i]) = 1

\* C17: every type alias, enum and class is rendered, in the unified and in
\* the contracts artifact, with exactly one export marker, whether its stored
\* definition text begins with 'export' or with white space before it.
C17_ExactlyOneExportMarker ==
    /\ OneMarkerEach(fs[UnifiedPath(config.rules.apiId)])
    /\ OneMarkerEach(fs[ContractsPath])

\* the type of the context named n, where there is one
TypeNamed(n) ==
    CHOOSE x \in {context.types[i] : i \in 1..Len(context.types)} : x.name = n

\* the declaration named n is in the source and extract() stores it
Declared(n) ==
    /\ n \notin config.rules.excludeTypes
    /\ \E f \in 1..Len(sourceInput) :
          \E k \in 1..Len(sourceInput[f]) :
             sourceInput[f][k].name = n /\ sourceInput[f][k].isExported

\* the type v holds the properties of the declared base type, each once and
\* of unchanged type, except the discriminator, which is the quoted literal
IsVariantOf(v, base, discriminate, literal) ==
    /\ Len(v.properties) = Len(base.properties)
    /\ \A i \in 1..Len(base.properties) :
          /\ v.properties[i].name = base.properties[i].name
          /\ TypeText(v.properties[i].type)
                = IF base.properties[i].name = discriminate
                  THEN <<"'">> \o literal \o <<"'">>
                  ELSE base.properties[i].typeText

\* C18: once the transformation stage has run, for every base type of
\* rules.transforms that the source declares, the context holds each variant
\* type, with the base's properties and the discriminator narrowed to the
\* variant's literal, and holds the type alias named as the base.
C18_VariantsSynthesized ==
    (\E k \in 1..Len(stages) : stages[k] = "transform")
       => \A j \in 1..Len(config.rules.transforms) :
             LET tr == config.rules.transforms[j]
             IN  Declared(tr.base)
                    => /\ \A v \in 1..Len(tr.variants) :
                             /\ tr.variants[v].name \in TypeNamesOf(context)
                             /\ IsVariantOf(TypeNamed(tr.variants[v].name),
                                            SourceDecl(tr.base),
                                            tr.discriminate,
                                            tr.variants[v].literal)
                       /\ tr.base \in TypeNamesOf(context)
                       /\ TypeNamed(tr.base).kind = "type"

\* the name the naming rule with prefix p gives to the name n
Prefixed(p, n) == IF StartsWith(n, p) THEN n ELSE p \o n

\* C19: after extract() with rules.naming.prefix P, every declaration the
\* source exports and the rules do not exclude is stored under P + name, or
\* under its own name where that begins with P already.
C19_PrefixApplied ==
    (pc = "extracted" /\ result = "returned")
       => \A f \in 1..Len(sourceInput) :
             \A k \in 1..Len(sourceInput[f]) :
                LET d == sourceInput[f][k]
                IN  Declared(d.name)
                       => \E i \in 1..Len(context.types) :
                             Spell[context.types[i].name]
                                = Prefixed(Spell[config.rules.naming.prefix],
                                           Spell[d.name])

StageOrder == <<"parse", "transform", "validate", "guard">>

\* C20: the stages that have run within an extract() call are an initial
\* part of parse, transform, validate, guard, so each ran at most once and
\* none before its predecessor; and once the transformation has started
\* every source file has been parsed.
C20_StagesInOrder ==
    /\ \E n \in 0..Len(StageOrder) : stages = SubSeq(StageOrder, 1, n)
    /\ Len(stages) >= 2
          => /\ fileIdx = Len(sourceInput) + 1
             /\ declIdx = 0
             /\ context.metrics.filesParsed = Len(sourceInput)

\* C20 witness: extract() has run all four stages on two source files
C20_Witness_AllStagesTwoFiles ==
    /\ stages = StageOrder
    /\ pc = "extracted"
    /\ Len(sourceInput) = 2
    /\ context.metrics.filesParsed = 2

\* C21: when extract() is entered a second time on an instance, the context
\* it starts from holds no type and no error and all counters are zero, and
\* the context the second call returns is the one a first call on the same
\* files returns.
C21_FreshContextPerCall ==
    /\ pc = "entered again" => context = NewContext
    /\ pc = "extracted again" => context = extract(sourceInput, config.rules)

\* C22: a step of the validation stage leaves context.types as it was, names
\* and records alike, and keeps the error entries it found, in their order,
\* ahead of the ones it adds.
C22_ValidationKeepsTypes ==
    [][pc = "validate"
          => /\ context'.types = context.types
             /\ Len(context'.errors) >= Len(context.errors)
             /\ SubSeq(context'.errors, 1, Len(context.errors))
                   = context.errors]_vars

\* C22 witness: the validation stage has just ended, having recorded a
\* failure, and the guard has not run yet
C22_Witness_ValidatedWithFailure ==
    /\ pc = "guard"
    /\ Len(context.types) > 0
    /\ context.types = preValidate
    /\ \E i \in 1..Len(context.errors) :
          context.errors[i].message \in {"has-no-properties", "missing-success"}

\* the positions at which the types hold a record named n
PositionsOf(types, n) == {i \in 1..Len(types) : types[i].name = n}

\* parseFile is about to extract a declaration whose name the context holds
Collision ==
    /\ pc = "parse"
    /\ declIdx > 0
    /\ CurrentDecl.name \notin config.rules.excludeTypes
    /\ CurrentDecl.kind = "class" => shouldExtractClass(config.rules, CurrentDecl)
    /\ PositionsOf(context.types, CurrentDecl.name) # {}

\* C23: after every step no name is held by two records of the context; and
\* when a declaration is extracted whose name the context holds already, the
\* one record of that name is then the later declaration's, no error entry
\* is added, and typesExtracted is one more than before.
C23_LastWriteWins ==
    [][/\ \A i \in 1..Len(context'.types) :
             PositionsOf(context'.types, context'.types[i].name) = {i}
       /\ Collision
             => /\ \A i \in PositionsOf(context'.types, CurrentDecl.name) :
                      /\ context'.types[i].sourceFile = fileIdx
                      /\ context'.types[i].kind = CurrentDecl.kind
                      /\ context'.types[i].definition = CurrentDecl.fullText
                /\ Len(context'.types) = Len(context.types)
                /\ context'.errors = context.errors
                /\ context'.metrics.typesExtracted
                      = context.metrics.typesExtracted + 1]_vars

\* C23 witness: two declarations of one name were extracted from two files,
\* and the record is that of the second file
C23_Witness_SecondFileStored ==
    /\ pc = "transform"
    /\ Len(sourceInput) = 2
    /\ Len(context.types) = 1
    /\ context.types[1].sourceFile = 2
    /\ context.metrics.typesExtracted = 2
    /\ context.errors = <<>>

\* C24: with failOnDrift, a generate() call that follows a generate() call of
\* the same, unchanged context finds no drift against the artifact on disk
\* and writes the artifact anew, whatever the clock reads by then.
C24_RegenerateUnchangedNoDrift ==
    [][(pc = "generated" /\ pc' = "regenerated" /\ config.failOnDrift)
          => /\ genError' = NoError
             /\ fs'[ContractsPath].kind = "contracts"
             /\ fs'[ContractsPath].generated = now'
             /\ fs'[ContractsPath].body = fs[ContractsPath].body
             /\ \A t \in now..MaxTime :
                   ~detectDrift(context, config.rules,
                                fs[ContractsPath], t).hasDrift]_vars

\* C24 witness: with failOnDrift the artifact of a context that keeps all its
\* declarations was generated a second time, at a later time than the first
C24_Witness_RegeneratedLater ==
    /\ pc = "regenerated"
    /\ config.failOnDrift
    /\ genError = NoError
    /\ Len(context.types) = MaxDecls
    /\ fs[ContractsPath].kind = "contracts"
    /\ fs[ContractsPath].generated > 0
    /\ fs[ContractsPath].duration > 0

\* C25: against an artifact on disk that declares the names the context's
\* contract types have, detectDrift finds no drift, whatever the declarations'
\* bodies are; and at every time it finds drift exactly when it lists a name
\* as added or as removed, no name being in both lists.
C25_DriftIsNameLevel ==
    fs[ContractsPath].kind = "contracts"
       => \A t \in now..MaxTime :
             LET drift == detectDrift(context, config.rules,
                                      fs[ContractsPath], t)
             IN  /\ ArtifactNames = ContractNames => ~drift.hasDrift
                 /\ drift.hasDrift
                       <=> (drift.added # <<>> \/ drift.removed # <<>>)
                 /\ SeqRange(drift.added) \cap SeqRange(drift.removed) = {}
                 /\ SeqRange(drift.added) = ContractNames \ ArtifactNames
                 /\ SeqRange(drift.removed) = ArtifactNames \ ContractNames

\* C25 witness: the body of a declaration was edited after the artifact on
\* disk was generated, its name kept, so that the names of the artifact and
\* of the context agree and the rendered declarations do not
C25_Witness_BodyEdited ==
    /\ pc = "changed"
    /\ fs[ContractsPath].kind = "contracts"
    /\ ArtifactNames = ContractNames
    /\ fs[ContractsPath].body
          # generateContractsFile(context, config.rules, now).body

MetricNames ==
    {"filesParsed", "typesExtracted", "transformsApplied",
     "validationsPassed", "validationsFailed", "anyTypeViolations"}

\* the step ends extract() on a failure: the catch block has added its entry
EndsOnFailure ==
    /\ pc # "extracted"
    /\ pc' = "extracted"
    /\ Len(context'.errors) > 0
    /\ context'.errors[Len(context'.errors)].message = "extraction-failed"

\* C26: when a failure ends extract(), the context handed to the caller holds
\* every error entry recorded before, in order and ahead of the failure's
\* own, every type stored before, and no metric lower than it was.
C26_DiagnosticsKept ==
    [][EndsOnFailure
          => /\ result' = "returned"
             /\ Len(context'.errors) > Len(context.errors)
             /\ SubSeq(context'.errors, 1, Len(context.errors))
                   = context.errors
             /\ context'.types = context.types
             /\ \A m \in MetricNames :
                   context'.metrics[m] >= context.metrics[m]
             /\ context'.metrics.startTime = context.metrics.startTime]_vars

\* C26 witness: the guard has ended extract() after validation had recorded
\* a failure, and the context holds both entries and the counted types
C26_Witness_GuardAfterValidationFailure ==
    /\ pc = "extracted"
    /\ context.metrics.anyTypeViolations > 0
    /\ context.metrics.typesExtracted = 2
    /\ Len(context.errors) >= 3
    /\ context.errors[1].message \in {"has-no-properties", "missing-success"}
    /\ context.errors[Len(context.errors)].message = "extraction-failed"

\* C27: when a source file of the input cannot be loaded, extract() raises
\* to its caller, parses no file from the unloadable one on, and runs none of
\* the transformation, validation and guard stages.
C27_UnloadableFileIsFatal ==
    (ExtractEnded /\ unloadable # {})
       => /\ result = "raised"
          /\ \A f \in unloadable : context.metrics.filesParsed < f
          /\ \A k \in 1..Len(stages) :
                stages[k] \notin {"transform", "validate", "guard"}

\* the files invocation i writes when it runs alone, its generate() reading
\* the clock at t
WrittenAlone(i, t) ==
    generate([p \in Paths |-> NoFile], context[i], config[i].rules,
             config[i].output, t)

\* C28: when two invocations for two APIs have run interleaved, the context
\* of each is the one its extract() returns alone, and every file an
\* invocation writes when run alone is in the output directory as that
\* invocation writes it, the index file included.
C28_InvocationsDoNotInterfere ==
    (pc = <<"complete", "complete">>)
       => \A i \in Invocations :
             /\ context[i] = extract(sourceInput[i], config[i].rules)
             /\ \E t \in 0..MaxTime :
                   \A p \in Paths :
                      WrittenAlone(i, t)[p].kind # "none"
                         => fs[p] = WrittenAlone(i, t)[p]

\* the rendered declarations of the interfaces in the files on disk
RenderedInterfaces ==
    UNION {UNION {{fs[p].body[s].decls[i] :
                      i \in 1..Len(fs[p].body[s].decls)} :
                     s \in {k \in 1..Len(fs[p].body) :
                               fs[p].body[k].title = "INTERFACES"}} :
              p \in {q \in Paths : fs[q].kind = "unified"}}
    \cup {fs[p].body[2] :
             p \in {q \in Paths :
                       /\ fs[q].kind = "split"
                       /\ TypeNamed(fs[q].body[1]).kind = "interface"}}

\* C29: after a run whose guard found no violation, no interface rendered
\* into a generated file holds the word 'any', whatever the adapter's
\* transformation did to the properties of the stored records.
C29_NoAnyRenderedAfterGuard ==
    (pc = "complete" /\ context.metrics.anyTypeViolations = 0)
       => \A text \in RenderedInterfaces : StandaloneAny(text) = {}

\* index i of s lies in a line comment
InComment(s, i) ==
    \E j \in 1..i :
        /\ j < Len(s)
        /\ s[j] = "/"
        /\ s[j + 1] = "/"
        /\ \A k \in j..i : s[k] # "\n"

\* index i of s lies in a string literal, the quotes included
InLiteral(s, i) ==
    /\ ~InComment(s, i)
    /\ \/ s[i] = "'"
       \/ Cardinality({j \in 1..i : s[j] = "'" /\ ~InComment(s, j)}) % 2 = 1

\* the text s with line comments and string literals blanked out
Blanked(s) ==
    [i \in 1..Len(s) |->
        IF InComment(s, i) \/ InLiteral(s, i) THEN " " ELSE s[i]]

\* the types whose definition uses 'any' outside comments and literals
UsingAnyAsType(types) ==
    {i \in 1..Len(types) :
        StandaloneAny(Blanked(types[i].definition)) # {}}

\* C30: when no stored declaration uses 'any' as a type (the word occurs at
\* most in comments and string literals of the stored text), the guard
\* counts no violation and the run is not aborted by it.
C30_AnyOutsideTypesPasses ==
    UsingAnyAsType(context.types) = {}
       => /\ context.metrics.anyTypeViolations = 0
          /\ \A i \in 1..Len(context.errors) :
                context.errors[i].type # "any-type-violation"

====
